---- MODULE Spec2Model ----
(***************************************************************************)
(* Purchase-order fulfilment pipeline of DoTransactionService              *)
(* (voucher-purchases/dotransaction.service.ts): balance check, per-unit   *)
(* issuance, retry, terminal status and publication of codes to Salla,     *)
(* and the installation webhooks of SallaWebhookService. One order of one  *)
(* store unless said otherwise.                                            *)
(*   Spec        one invocation at a time, repository calls succeed, the   *)
(*               issuer's prices are those the order was created at        *)
(*   SpecExec    Spec with the failures of authentication inside the       *)
(*               Executor and answers without an error text                *)
(*   SpecDb      Spec with a database that becomes unreachable in a run    *)
(*   SpecPricing checkBalanceAndUpdatePricing against moving issuer prices *)
(*   SpecConc    overlapping invocations of retryFailedVouchers            *)
(*   SpecCheck   Spec with the Verifier called on its own between the runs *)
(*               and issuer prices that move                               *)
(*   SpecBulk    updateAllStorePricing over the store's option rows        *)
(*   SpecPause   one run of processPurchaseOrder on an order of 11 units   *)
(*   SpecStore   processPurchaseOrder of two orders of one store at the    *)
(*               same time, sharing the store's balance at the issuer      *)
(*   SpecStock   attachAllVoucherCodesToSalla of two orders at the same    *)
(*               time on one storefront product                            *)
(*   SpecStores  the Publisher where two stores sell the same option       *)
(*   SpecWebhook app.installed, app.store.authorize and app.uninstalled    *)
(***************************************************************************)
EXTENDS Integers, Sequences, FiniteSets, TLC

\* ---- bounds of the model --------------------------------------------------
MaxItems == 2        \* items of the order
MaxQty == 3          \* quantity_ordered of one item
MaxUnits == 3        \* voucher units of the order
MaxRequests == 4     \* issuance requests of the order after which no new retry run starts
MaxAttach == 2       \* attached codes of the order after which no new Publisher run starts
BalanceSlack == 0    \* the issuer balance ranges from (total cost - 1) to (total cost + BalanceSlack)
MaxPrice == 2        \* wholesale values of the issuer's catalogue range over 1..MaxPrice
MaxInvocations == 2  \* invocations that may run concurrently on the order
MaxUnitsSmall == 2   \* voucher units of the order where invocations overlap or the database fails
MaxBurstUnits == 11  \* voucher units of the order whose pauses are counted

\* ---- program constants ----------------------------------------------------
MaxRetries == 3      \* retryFailedVouchers: voucher.retry_count < 3
PauseEvery == 10     \* processPurchaseOrder: successCount % 10 === 0

VARIABLES
    purchase,        \* the MerchantVoucherPurchase row
    items,           \* the MerchantVoucherPurchaseItem rows of the order
    units,           \* the MerchantVoucherPurchaseDetail rows of the order
    storeOptions,    \* the SallaStoreProductOption rows
    pc,              \* position of the running invocation
    op,              \* entry point that is running
    queue,           \* vouchers still to be visited by the running loop
    successCount,    \* local of processPurchaseOrder
    failureCount,    \* local of processPurchaseOrder
    groups,          \* vouchersByProduct entries not yet attached
    result,          \* how the invocation ended, while its caller holds the outcome
    error,           \* the error the invocation propagated
    request,         \* the POST /dotransaction request in flight
    response,        \* the issuer's answer to it, not yet handled
    returned,        \* the value checkBalanceAndUpdatePricing handed to its caller
    running,         \* per slot: a retryFailedVouchers invocation that runs concurrently
    catalogue,       \* the issuer's wholesale range of each product option
    updatedCount,    \* local of updateAllStorePricing, then the value it returns
    lookupFailed,    \* option codes whose lookup failed in that run
    sincePause,      \* requests processPurchaseOrder has sent since its last pause
    orders,          \* the orders of the store that are processed concurrently
    wallet,          \* the store's balance at the issuer
    stores,          \* the store records (table salla_stores)
    webhooks,        \* the webhook payloads processed so far, per merchant
    requests,        \* per unit: POST /dotransaction requests sent
    attached,        \* per unit: successful digital-codes attachments of its code
    attachFailed     \* per unit: a digital-codes request carrying its code has failed

vars == <<purchase, items, units, storeOptions, pc, op, queue, successCount,
          failureCount, groups, result, error, request, response, returned,
          running,
          catalogue, updatedCount, lookupFailed, sincePause, orders, wallet,
          stores, webhooks,
          requests, attached, attachFailed>>

\* what only the specifications of several orders and of the webhooks write
moreVars == <<orders, wallet, stores, webhooks>>

\* what only the Verifier called on its own, the issuer, concurrent invocations
\* and the bulk refresh write
extraButPause ==
    <<returned, running, catalogue, updatedCount, lookupFailed, moreVars>>

extra == <<extraButPause, sincePause>>

Slots == 1..MaxInvocations

\* ---- enums ----------------------------------------------------------------
VoucherStatus == {"PENDING", "PROCESSING", "GENERATED", "FAILED"}

PurchaseOrderStatus ==
    {"DRAFT", "PENDING", "PROCESSING", "COMPLETED", "PARTIALLY_COMPLETED",
     "FAILED", "CANCELLED"}

\* What the issuer answers to one POST /dotransaction: success with or
\* without a Reference, OperationSucceeded = false, or a non-2xx / network error
Outcomes == {"ok", "ok_noref", "reject", "http_error"}

\* ---- helpers --------------------------------------------------------------
RECURSIVE SumSeq(_)
SumSeq(s) == IF s = <<>> THEN 0 ELSE Head(s) + SumSeq(Tail(s))

Indexes(s) == [i \in 1..Len(s) |-> i]

\* purchaseDetailRepository.find({where: {purchase_id, status}})
FindByStatus(us, st) == SelectSeq(Indexes(us), LAMBDA i : us[i].status = st)

\* SELECT COUNT(*) ... WHERE status = :status
CountByStatus(us, st) == Cardinality({i \in DOMAIN us : us[i].status = st})

\* variant: the save writes every row of the voucher's purchase item
save_ByItem(us, u, v) ==
    [w \in DOMAIN us |->
        IF us[w].purchase_item_id = v.purchase_item_id THEN v ELSE us[w]]

\* purchaseDetailRepository.save(voucher): the row with the entity's id is replaced
save(us, u, v) == [us EXCEPT ![u] = v]

\* the issuer balances (currency units) an order of total cost tc is checked against
Plafonds(tc) == {b \in (tc - 1)..(tc + BalanceSlack) : b >= 0}

\* ---- order-level helpers ---------------------------------------------------
\* updatePurchaseStatus
updatePurchaseStatus(p, st) ==
    [p EXCEPT !.status = st,
              !.processing_started_at =
                  IF st = "PROCESSING" THEN TRUE ELSE @,
              !.processing_completed_at =
                  IF st \in {"COMPLETED", "PARTIALLY_COMPLETED", "FAILED"}
                  THEN TRUE ELSE @]

\* updatePurchaseCounts
updatePurchaseCounts(p, us) ==
    [p EXCEPT !.total_vouchers_generated = CountByStatus(us, "GENERATED"),
              !.total_vouchers_failed = CountByStatus(us, "FAILED")]

\* variant: the catch block stores the message and leaves the status
CatchProcessingFailed_KeepsStatus(p) ==
    [p EXCEPT !.error_message = "Processing failed"]

\* catch block of processPurchaseOrder
CatchProcessingFailed(p) ==
    updatePurchaseStatus([p EXCEPT !.error_message = "Processing failed"],
                         "FAILED")

\* ---- Balance & Pricing Verifier --------------------------------------------
\* checkBalanceAndUpdatePricing, item loop: the items before index k have been
\* repriced and saved (k = Len(its) + 1 when the loop ran to its end)
RepriceItems(its, price, k) ==
    [i \in 1..Len(its) |->
        IF i < k
        THEN [its[i] EXCEPT
                 !.unit_wholesale_price = price[its[i].product_option_code],
                 !.total_wholesale_cost =
                     its[i].quantity_ordered * price[its[i].product_option_code]]
        ELSE its[i]]

\* updateSallaStoreProductOptionPricing: every row of the option takes the
\* minimum wholesale value (original_price_usd is written the same value)
updateSallaStoreProductOptionPricing(rows, code, pricing) ==
    [k \in DOMAIN rows |->
        IF rows[k].option_code = code
        THEN [rows[k] EXCEPT !.wholesale_price_usd = pricing.min_wholesale_value]
        ELSE rows[k]]

\* checkBalanceAndUpdatePricing, item loop: the option rows after the items
\* before index k have been repriced
RECURSIVE RepriceOptions(_, _, _, _)
RepriceOptions(rows, its, price, k) ==
    IF k <= 1 \/ its = <<>> THEN rows
    ELSE LET i == IF k > Len(its) THEN Len(its) ELSE k - 1
             code == its[i].product_option_code
         IN  updateSallaStoreProductOptionPricing(
                RepriceOptions(rows, its, price, i), code,
                [min_wholesale_value |-> price[code]])

\* the issuer's wholesale value of each option when the order was created: the
\* price its items carry
IssuerPrice(its) ==
    [c \in {its[i].product_option_code : i \in DOMAIN its} |->
        LET i == CHOOSE j \in DOMAIN its : its[j].product_option_code = c
        IN  its[i].unit_wholesale_price]

\* variant: the item is priced at the top of the wholesale range
MinWholesale_Max(cat) == [c \in DOMAIN cat |-> cat[c].max_wholesale_value]

\* checkBalanceAndUpdatePricing: pricing.min_wholesale_value of each option
MinWholesale(cat) == [c \in DOMAIN cat |-> cat[c].min_wholesale_value]

TotalCost(its) ==
    SumSeq([i \in 1..Len(its) |-> its[i].total_wholesale_cost])

\* variant: the total cost is compared without its conversion to cents
Sufficient_CostNotInCents(balance, totalCost) == balance >= totalCost

\* the comparison that decides `sufficient`, in cents
Sufficient(balance, totalCost) == balance >= totalCost * 100

\* checkBalanceAndUpdatePricing, when neither authentication nor a pricing
\* lookup throws: the new purchase row, the new items and the returned value
checkBalanceAndUpdatePricing(p, its, plafond, price) ==
    LET balance == plafond * 100
        newItems == RepriceItems(its, price, Len(its) + 1)
        totalCost == TotalCost(newItems)
        reset == IF p.status = "FAILED"
                 THEN [p EXCEPT !.status = "PENDING", !.error_message = "null"]
                 ELSE p
    IN  [purchase |-> [reset EXCEPT !.total_wholesale_cost = totalCost,
                                    !.ubiqfy_balance_before = balance \div 100],
         items |-> newItems,
         balance |-> balance \div 100,
         sufficient |-> Sufficient(balance, totalCost),
         totalCost |-> totalCost]

\* ---- Transaction Executor --------------------------------------------------
\* new Date() / Date.now(): later than every timestamp the voucher carries
Now(v) ==
    (IF v.request_sent_at > v.response_received_at
     THEN v.request_sent_at ELSE v.response_received_at) + 1

\* processSingleVoucher, first lines: the voucher as it is saved before the call
MarkProcessing(v) ==
    [v EXCEPT !.status = "PROCESSING", !.request_sent_at = Now(v)]

\* variant: the amount is the item's wholesale price
DoTransactionRequest_Wholesale(v, its) ==
    [ExternalId |-> v.external_id,
     ProductTypeCode |-> "Voucher",
     ProductOptionCode |-> its[v.purchase_item_id].product_option_code,
     Amount |-> its[v.purchase_item_id].unit_wholesale_price,
     Quantity |-> 1]

\* processSingleVoucher: the body of POST /dotransaction (a null face value is
\* written 0, as `unit_face_value || 0` sends it)
DoTransactionRequest(v, its) ==
    [ExternalId |-> v.external_id,
     ProductTypeCode |-> "Voucher",
     ProductOptionCode |-> its[v.purchase_item_id].product_option_code,
     Amount |-> its[v.purchase_item_id].unit_face_value,
     Quantity |-> 1]

\* no request is in flight
NoRequest ==
    [ExternalId |-> <<0, 0>>, ProductTypeCode |-> "none",
     ProductOptionCode |-> 0, Amount |-> 0, Quantity |-> 0]

\* response.ErrorText of an answer with OperationSucceeded = false
ErrorText(outcome) ==
    IF outcome = "reject" THEN "issuer error text" ELSE ""

\* error.message of what processSingleVoucher catches
ErrorMessage(outcome) ==
    IF outcome = "http_error" THEN "HTTP 500"
    ELSE IF outcome = "auth_error" THEN "authentication failed"
    ELSE ""

\* variant: a rejection is saved without a status change
handleDoTransactionResponse_RejectKeepsStatus(v, u, outcome, responseTime) ==
    IF outcome \in {"ok", "ok_noref"}
    THEN [v EXCEPT !.response_received_at = Now(v),
                   !.response_time_ms = responseTime,
                   !.status = "GENERATED",
                   !.reference = IF outcome = "ok" THEN u ELSE @]
    ELSE [v EXCEPT !.response_received_at = Now(v),
                   !.response_time_ms = responseTime]

\* handleDoTransactionResponse: reference codes are unique, the code of unit u
\* is written u; 0 stands for null
handleDoTransactionResponse(v, u, outcome, responseTime) ==
    IF outcome \in {"ok", "ok_noref"}
    THEN [v EXCEPT !.response_received_at = Now(v),
                   !.response_time_ms = responseTime,
                   !.status = "GENERATED",
                   !.reference = IF outcome = "ok" THEN u ELSE @]
    ELSE [v EXCEPT !.response_received_at = Now(v),
                   !.response_time_ms = responseTime,
                   !.status = "FAILED",
                   !.error_text = IF ErrorText(outcome) = ""
                                  THEN "Unknown error" ELSE ErrorText(outcome)]

\* variant: the retry counter is left as it is
handleDoTransactionError_NoCount(v, outcome, responseTime) ==
    [v EXCEPT !.response_received_at = Now(v),
              !.response_time_ms = responseTime,
              !.status = "FAILED",
              !.error_text = IF ErrorMessage(outcome) = ""
                             THEN "API call failed" ELSE ErrorMessage(outcome)]

\* handleDoTransactionError
handleDoTransactionError(v, outcome, responseTime) ==
    [v EXCEPT !.response_received_at = Now(v),
              !.response_time_ms = responseTime,
              !.status = "FAILED",
              !.error_text = IF ErrorMessage(outcome) = ""
                             THEN "API call failed" ELSE ErrorMessage(outcome),
              !.retry_count = @ + 1]

\* processSingleVoucher throws to its caller
Throws(outcome) == outcome \in {"http_error", "auth_error"}

\* processSingleVoucher after the PROCESSING save; startTime is taken right
\* after that save
ExecuteVoucher(v, u, outcome) ==
    LET responseTime == Now(v) - v.request_sent_at
    IN  IF Throws(outcome)
        THEN handleDoTransactionError(v, outcome, responseTime)
        ELSE handleDoTransactionResponse(v, u, outcome, responseTime)

\* variant: the cap is compared with <=
RetryAllowed_Inclusive(v) == v.retry_count <= MaxRetries

\* retryFailedVouchers: if (voucher.retry_count < 3)
RetryAllowed(v) == v.retry_count < MaxRetries

\* processPurchaseOrder step 6
FinalStatus(sc, fc) ==
    IF fc = 0 THEN "COMPLETED"
    ELSE IF sc > 0 THEN "PARTIALLY_COMPLETED" ELSE "FAILED"

\* ---- Stock & Catalog Publisher ---------------------------------------------
\* sallaStoreProductOptionRepository.findOne({where: {option_code}}): index of
\* the row, 0 when there is none
FindOption(rows, code) ==
    IF \E k \in DOMAIN rows : rows[k].option_code = code
    THEN CHOOSE k \in DOMAIN rows :
            /\ rows[k].option_code = code
            /\ \A j \in DOMAIN rows : rows[j].option_code = code => k <= j
    ELSE 0

\* variant: the entry is assigned the new code instead of being pushed onto
MapPush_Overwrite(m, pid, code) ==
    IF \E k \in DOMAIN m : m[k].sallaProductId = pid
    THEN [k \in DOMAIN m |->
            IF m[k].sallaProductId = pid
            THEN [m[k] EXCEPT !.codes = <<code>>]
            ELSE m[k]]
    ELSE Append(m, [sallaProductId |-> pid, codes |-> <<code>>])

\* vouchersByProduct.get(sallaProductId).push(reference), creating the entry
\* when the Map has none; the Map keeps insertion order
MapPush(m, pid, code) ==
    IF \E k \in DOMAIN m : m[k].sallaProductId = pid
    THEN [k \in DOMAIN m |->
            IF m[k].sallaProductId = pid
            THEN [m[k] EXCEPT !.codes = Append(@, code)]
            ELSE m[k]]
    ELSE Append(m, [sallaProductId |-> pid, codes |-> <<code>>])

\* attachAllVoucherCodesToSalla: which vouchers the Publisher loads
PublishCandidates(us) == FindByStatus(us, "GENERATED")

\* attachAllVoucherCodesToSalla: the grouping loop over generatedVouchers
RECURSIVE GroupVouchers(_, _, _, _, _)
GroupVouchers(gen, us, its, rows, m) ==
    IF gen = <<>> THEN m
    ELSE LET v == us[Head(gen)]
             k == FindOption(rows, its[v.purchase_item_id].product_option_code)
             m2 == IF v.reference # 0 /\ k # 0 /\ rows[k].salla_product_id # 0
                   THEN MapPush(m, rows[k].salla_product_id, v.reference)
                   ELSE m
         IN  GroupVouchers(Tail(gen), us, its, rows, m2)

InCodes(ref, codes) == \E k \in DOMAIN codes : codes[k] = ref

\* flagVouchersAsSyncedToSalla: UPDATE ... WHERE reference IN (:...codes)
flagVouchersAsSyncedToSalla(us, codes) ==
    [u \in DOMAIN us |->
        IF InCodes(us[u].reference, codes)
        THEN [us[u] EXCEPT !.salla_synced = TRUE, !.salla_synced_at = TRUE]
        ELSE us[u]]

\* variant: the counter is incremented by one per call
refreshStockLevels_ByOne(rows, pid, quantityAdded) ==
    [k \in DOMAIN rows |->
        IF rows[k].salla_product_id = pid
        THEN [rows[k] EXCEPT !.stock_quantity = @ + 1]
        ELSE rows[k]]

\* refreshStockLevels
refreshStockLevels(rows, pid, quantityAdded) ==
    [k \in DOMAIN rows |->
        IF rows[k].salla_product_id = pid
        THEN [rows[k] EXCEPT !.stock_quantity = @ + quantityAdded]
        ELSE rows[k]]

\* checkBalanceAndUpdatePricing has not been called on its own
NotReturned == [balance |-> 0, sufficient |-> FALSE, totalCost |-> 0]

\* no store is registered and no webhook has been processed
NoWebhook ==
    /\ stores = <<>>
    /\ webhooks = <<>>

\* the slot runs no invocation
NoInvocation == [pc |-> "idle", queue |-> <<>>, sent |-> {}]

\* ---- initial state ---------------------------------------------------------
\* The units of an order are created when the order is confirmed, one PENDING
\* unit per ordered quantity of each item.
RECURSIVE ExpandItems(_, _)
ExpandItems(its, i) ==
    IF i > Len(its) THEN <<>>
    ELSE [n \in 1..its[i].quantity_ordered |->
             [purchase_item_id |-> i, external_id |-> <<i, n>>,
              status |-> "PENDING", retry_count |-> 0,
              reference |-> 0, error_text |-> "null",
              request_sent_at |-> 0, response_received_at |-> 0,
              response_time_ms |-> 0,
              salla_synced |-> FALSE, salla_synced_at |-> FALSE]]
         \o ExpandItems(its, i + 1)

Init ==
    /\ \E n \in 1..MaxItems : \E q \in [1..n -> 1..MaxQty] :
       \E linked \in [1..n -> BOOLEAN] :
          /\ SumSeq(q) <= MaxUnits
          /\ items = [i \in 1..n |->
                        [product_option_code |-> i, quantity_ordered |-> q[i],
                         unit_face_value |-> 1 + i,
                         unit_wholesale_price |-> 1,
                         total_wholesale_cost |-> q[i]]]
          /\ storeOptions = [i \in 1..n |->
                        [option_code |-> i,
                         salla_product_id |-> IF linked[i] THEN 10 + i ELSE 0,
                         wholesale_price_usd |-> 1,
                         stock_quantity |-> 0]]
    /\ units = ExpandItems(items, 1)
    /\ purchase = [status |-> "PENDING", error_message |-> "null",
                   total_wholesale_cost |-> TotalCost(items),
                   ubiqfy_balance_before |-> 0,
                   total_vouchers_generated |-> 0,
                   total_vouchers_failed |-> 0,
                   processing_started_at |-> FALSE,
                   processing_completed_at |-> FALSE]
    /\ pc = "idle"
    /\ op = "none"
    /\ queue = <<>>
    /\ successCount = 0
    /\ failureCount = 0
    /\ groups = <<>>
    /\ result = "none"
    /\ error = "none"
    /\ request = NoRequest
    /\ response = "none"
    /\ returned = NotReturned
    /\ updatedCount = 0
    /\ lookupFailed = {}
    /\ sincePause = 0
    /\ orders = <<>>
    /\ wallet = 0
    /\ NoWebhook
    /\ running = [s \in Slots |-> NoInvocation]
    /\ catalogue = [c \in {items[i].product_option_code : i \in DOMAIN items} |->
                      [min_wholesale_value |-> IssuerPrice(items)[c],
                       max_wholesale_value |-> IssuerPrice(items)[c]]]
    /\ requests = [u \in DOMAIN units |-> 0]
    /\ attached = [u \in DOMAIN units |-> 0]
    /\ attachFailed = [u \in DOMAIN units |-> FALSE]

\* ---- actions ---------------------------------------------------------------
\* the running invocation returns or throws; its locals are gone
Finish(res, err) ==
    /\ pc' = "done"
    /\ successCount' = 0
    /\ failureCount' = 0
    /\ result' = res
    /\ error' = err
    /\ queue' = <<>>
    /\ groups' = <<>>

\* variant: the load also takes the FAILED vouchers
FindPending_WithFailed(us) ==
    SelectSeq(Indexes(us), LAMBDA i : us[i].status \in {"PENDING", "FAILED"})

\* processPurchaseOrder step 3
FindPending(us) == FindByStatus(us, "PENDING")

\* variant: the load also takes the GENERATED vouchers
FindFailed_WithGenerated(us) ==
    SelectSeq(Indexes(us), LAMBDA i : us[i].status \in {"FAILED", "GENERATED"})

\* retryFailedVouchers: the vouchers it loads
FindFailed(us) == FindByStatus(us, "FAILED")

\* processPurchaseOrder, steps 1 to 3: the pre-flight check, the PROCESSING
\* mark and the load of the pending vouchers
ProcessStart ==
    /\ UNCHANGED <<request, response, extraButPause>>
    /\ sincePause' = 0
    /\ pc = "idle"
    /\ op' = "process"
    /\ UNCHANGED <<units, requests, attached, attachFailed>>
    /\ \/ \* authenticateWithUbiqfy (k = 0) or the pricing lookup of item k throws
          \E k \in 0..Len(items) :
             /\ items' = RepriceItems(items, MinWholesale(catalogue), k)
             /\ storeOptions' = RepriceOptions(storeOptions, items,
                                               MinWholesale(catalogue), k)
             /\ purchase' = CatchProcessingFailed(purchase)
             /\ Finish("thrown", "verifier")
       \/ \E plafond \in Plafonds(TotalCost(RepriceItems(items,
                                     MinWholesale(catalogue), Len(items) + 1))) :
             LET chk == checkBalanceAndUpdatePricing(purchase, items, plafond,
                                                     MinWholesale(catalogue))
             IN  /\ items' = chk.items
                 /\ storeOptions' = RepriceOptions(storeOptions, items,
                                        MinWholesale(catalogue), Len(items) + 1)
                 /\ IF chk.sufficient
                    THEN /\ purchase' = updatePurchaseStatus(chk.purchase, "PROCESSING")
                         /\ queue' = FindPending(units)
                         /\ pc' = "loop"
                         /\ successCount' = 0
                         /\ failureCount' = 0
                         /\ result' = "running"
                         /\ error' = "none"
                         /\ groups' = <<>>
                    ELSE /\ purchase' = CatchProcessingFailed(
                                [updatePurchaseStatus(chk.purchase, "FAILED")
                                   EXCEPT !.error_message = "Insufficient balance"])
                         /\ Finish("thrown", "Insufficient balance to process purchase")

\* variant: the retry first refreshes the prices of the items
RetryStart_Reprices ==
    /\ UNCHANGED <<request, response, extra>>
    /\ pc = "idle"
    /\ SumSeq(requests) < MaxRequests
    /\ op' = "retry"
    /\ queue' = FindFailed(units)
    /\ pc' = "loop"
    /\ result' = "running"
    /\ error' = "none"
    /\ items' = RepriceItems(items, MinWholesale(catalogue), Len(items) + 1)
    /\ UNCHANGED <<purchase, units, storeOptions, successCount,
                   failureCount, groups, requests, attached, attachFailed>>

\* retryFailedVouchers: the load of the failed vouchers
RetryStart ==
    /\ UNCHANGED <<request, response, extra>>
    /\ pc = "idle"
    /\ SumSeq(requests) < MaxRequests
    /\ op' = "retry"
    /\ queue' = FindFailed(units)
    /\ pc' = "loop"
    /\ result' = "running"
    /\ error' = "none"
    /\ UNCHANGED <<purchase, items, units, storeOptions, successCount,
                   failureCount, groups, requests, attached, attachFailed>>

\* retryFailedVouchers: a voucher of the list that is not retried
RetrySkip ==
    /\ UNCHANGED <<request, response, extra>>
    /\ pc = "loop"
    /\ op = "retry"
    /\ queue # <<>>
    /\ ~RetryAllowed(units[Head(queue)])
    /\ queue' = Tail(queue)
    /\ UNCHANGED <<purchase, items, units, storeOptions, pc, op, successCount,
                   failureCount, groups, result, error, requests, attached, attachFailed>>

\* processSingleVoucher, first save: the voucher is marked PROCESSING
VoucherBegin ==
    /\ UNCHANGED <<request, response, extra>>
    /\ pc = "loop"
    /\ queue # <<>>
    /\ op = "retry" => RetryAllowed(units[Head(queue)])
    /\ units' = save(units, Head(queue), MarkProcessing(units[Head(queue)]))
    /\ pc' = "unit"
    /\ UNCHANGED <<purchase, items, storeOptions, op, queue, successCount,
                   failureCount, groups, result, error, requests, attached, attachFailed>>

\* processSingleVoucher: authentication has given a token and the request is
\* posted to the issuer
VoucherSend ==
    /\ pc = "unit"
    /\ request' = DoTransactionRequest(units[Head(queue)], items)
    /\ requests' = [requests EXCEPT ![Head(queue)] = @ + 1]
    /\ pc' = "call"
    /\ sincePause' = IF op = "process" THEN sincePause + 1 ELSE sincePause
    /\ UNCHANGED <<purchase, items, units, storeOptions, op, queue,
                   successCount, failureCount, groups, result, error,
                   response, attached, attachFailed, extraButPause>>

\* the issuer answers the request, or the call fails
IssuerAnswers ==
    /\ pc = "call"
    /\ \E outcome \in Outcomes : response' = outcome
    /\ request' = NoRequest
    /\ pc' = "answer"
    /\ UNCHANGED <<purchase, items, units, storeOptions, op, queue,
                   successCount, failureCount, groups, result, error,
                   requests, attached, attachFailed, extra>>

\* variant: the loop is left at the first voucher that throws
VoucherDone_StopsAtFailure(outcome) ==
    LET u == Head(queue)
    IN  /\ units' = save(units, u, ExecuteVoucher(units[u], u, outcome))
        /\ successCount' = IF op = "process" /\ ~Throws(outcome)
                           THEN successCount + 1 ELSE successCount
        /\ failureCount' = IF op = "process" /\ Throws(outcome)
                           THEN failureCount + 1 ELSE failureCount
        /\ queue' = IF Throws(outcome) THEN <<>> ELSE Tail(queue)
        /\ sincePause' = IF op = "process" /\ ~Throws(outcome)
                              /\ (successCount + 1) % PauseEvery = 0
                          THEN 0 ELSE sincePause
        /\ pc' = "loop"

\* the voucher that processSingleVoucher was called for has been handled: the
\* caller's bookkeeping for it, with the pause of one second after every tenth
\* call that returned
VoucherDone(outcome) ==
    LET u == Head(queue)
    IN  /\ units' = save(units, u, ExecuteVoucher(units[u], u, outcome))
        /\ successCount' = IF op = "process" /\ ~Throws(outcome)
                           THEN successCount + 1 ELSE successCount
        /\ failureCount' = IF op = "process" /\ Throws(outcome)
                           THEN failureCount + 1 ELSE failureCount
        /\ queue' = Tail(queue)
        /\ sincePause' = IF op = "process" /\ ~Throws(outcome)
                              /\ (successCount + 1) % PauseEvery = 0
                          THEN 0 ELSE sincePause
        /\ pc' = "loop"

\* processSingleVoucher: the answer (or the failure of the call) is handled and
\* its outcome saved
VoucherEnd ==
    /\ pc = "answer"
    /\ VoucherDone(response)
    /\ response' = "none"
    /\ UNCHANGED <<purchase, items, storeOptions, op, groups, result, error,
                   request, requests, attached, attachFailed, extraButPause>>

\* retryFailedVouchers: after the loop
RetryFinish ==
    /\ UNCHANGED <<request, response, extra>>
    /\ pc = "loop"
    /\ op = "retry"
    /\ queue = <<>>
    /\ purchase' = updatePurchaseCounts(purchase, units)
    /\ Finish("returned", "none")
    /\ UNCHANGED <<items, units, storeOptions, op, requests, attached, attachFailed>>

\* attachAllVoucherCodesToSalla up to the attachment loop
BeginPublish ==
    IF PublishCandidates(units) = <<>>
    THEN Finish("returned", "none")
    ELSE /\ groups' = GroupVouchers(PublishCandidates(units), units, items,
                                    storeOptions, <<>>)
         /\ pc' = "attach"
         /\ queue' = <<>>
         /\ successCount' = 0
         /\ failureCount' = 0
         /\ result' = "running"
         /\ error' = "none"

\* processPurchaseOrder, steps 5 to 7 up to the Publisher's attachment loop
ProcessFinish ==
    /\ UNCHANGED <<request, response, extraButPause>>
    /\ sincePause' = 0
    /\ pc = "loop"
    /\ op = "process"
    /\ queue = <<>>
    /\ UNCHANGED <<items, units, storeOptions, op, requests, attached, attachFailed>>
    /\ \/ \* authenticateWithUbiqfy throws at step 5
          /\ purchase' = CatchProcessingFailed(purchase)
          /\ Finish("thrown", "auth")
       \/ /\ purchase' = updatePurchaseCounts(
                            updatePurchaseStatus(purchase,
                                FinalStatus(successCount, failureCount)),
                            units)
          /\ IF successCount > 0
             THEN BeginPublish
             ELSE Finish("returned", "none")

\* attachAllVoucherCodesToSalla called on its own
PublishStart ==
    /\ UNCHANGED <<request, response, extra>>
    /\ pc = "idle"
    /\ SumSeq(attached) < MaxAttach
    /\ op' = "publish"
    /\ BeginPublish
    /\ UNCHANGED <<purchase, items, units, storeOptions, requests, attached, attachFailed>>

\* variant: a failed attachment is logged and the loop goes on with the next
\* entry
AttachGroup_GoesOn ==
    /\ UNCHANGED <<request, response, extra>>
    /\ pc = "attach"
    /\ groups # <<>>
    /\ UNCHANGED <<purchase, items, op, requests>>
    /\ LET g == Head(groups)
       IN  \/ \* the storefront answers success
              /\ units' = flagVouchersAsSyncedToSalla(units, g.codes)
              /\ storeOptions' = refreshStockLevels(storeOptions,
                                    g.sallaProductId, Len(g.codes))
              /\ attached' = [u \in DOMAIN attached |->
                                 IF InCodes(units[u].reference, g.codes)
                                 THEN attached[u] + 1 ELSE attached[u]]
              /\ groups' = Tail(groups)
              /\ UNCHANGED <<pc, queue, result, error, successCount,
                             failureCount, attachFailed>>
           \/ \* the storefront call fails: the entry is skipped
              /\ groups' = Tail(groups)
              /\ UNCHANGED <<pc, queue, result, error, successCount,
                             failureCount>>
              /\ attachFailed' = [u \in DOMAIN attachFailed |->
                                     attachFailed[u]
                                     \/ InCodes(units[u].reference, g.codes)]
              /\ UNCHANGED <<units, storeOptions, attached>>

\* attachVoucherCodesToSallaProduct for the next entry of vouchersByProduct
AttachGroup ==
    /\ UNCHANGED <<request, response, extra>>
    /\ pc = "attach"
    /\ groups # <<>>
    /\ UNCHANGED <<purchase, items, op, requests>>
    /\ LET g == Head(groups)
       IN  \/ \* the storefront answers success
              /\ units' = flagVouchersAsSyncedToSalla(units, g.codes)
              /\ storeOptions' = refreshStockLevels(storeOptions,
                                    g.sallaProductId, Len(g.codes))
              /\ attached' = [u \in DOMAIN attached |->
                                 IF InCodes(units[u].reference, g.codes)
                                 THEN attached[u] + 1 ELSE attached[u]]
              /\ groups' = Tail(groups)
              /\ UNCHANGED <<pc, queue, result, error, successCount,
                             failureCount, attachFailed>>
           \/ \* the storefront call fails: the error leaves the Publisher
              /\ IF op = "process"
                 THEN Finish("returned", "none")
                 ELSE Finish("thrown", "salla")
              /\ attachFailed' = [u \in DOMAIN attachFailed |->
                                     attachFailed[u]
                                     \/ InCodes(units[u].reference, g.codes)]
              /\ UNCHANGED <<units, storeOptions, attached>>

\* attachAllVoucherCodesToSalla returns after the last entry
PublishFinish ==
    /\ UNCHANGED <<request, response, extra>>
    /\ pc = "attach"
    /\ groups = <<>>
    /\ Finish("returned", "none")
    /\ UNCHANGED <<purchase, items, units, storeOptions, op, requests, attached, attachFailed>>

\* the caller has taken the outcome of the invocation
Return ==
    /\ UNCHANGED <<request, response, extra>>
    /\ pc = "done"
    /\ pc' = "idle"
    /\ op' = "none"
    /\ result' = "none"
    /\ error' = "none"
    /\ UNCHANGED <<purchase, items, units, storeOptions, queue, successCount,
                   failureCount, groups, requests, attached, attachFailed>>

Next ==
    \/ ProcessStart
    \/ VoucherBegin
    \/ VoucherSend
    \/ IssuerAnswers
    \/ VoucherEnd
    \/ ProcessFinish
    \/ RetryStart
    \/ RetrySkip
    \/ RetryFinish
    \/ PublishStart
    \/ AttachGroup
    \/ PublishFinish
    \/ Return

Spec == Init /\ [][Next]_vars

\* ---- the Executor with every failure it handles ----------------------------
\* processSingleVoucher: the purchase or its store is not found, or
\* authenticateWithUbiqfy throws; no request is posted
VoucherAuthFail ==
    /\ pc = "unit"
    /\ VoucherDone("auth_error")
    /\ UNCHANGED <<purchase, items, storeOptions, op, groups, result, error,
                   request, response, requests, attached, attachFailed,
                   extraButPause>>

\* the issuer answers OperationSucceeded = false without an ErrorText
IssuerAnswersNoText ==
    /\ pc = "call"
    /\ response' = "reject_notext"
    /\ request' = NoRequest
    /\ pc' = "answer"
    /\ UNCHANGED <<purchase, items, units, storeOptions, op, queue,
                   successCount, failureCount, groups, result, error,
                   requests, attached, attachFailed, extra>>

NextExec ==
    \/ Next
    \/ VoucherAuthFail
    \/ IssuerAnswersNoText

\* an order of at most MaxUnitsSmall units
InitExec == Init /\ Len(units) <= MaxUnitsSmall

SpecExec == InitExec /\ [][NextExec]_vars

\* ---- the pipeline on a database that can become unreachable ----------------
\* The repository calls of a running processPurchaseOrder start to reject: the
\* loop's remaining saves and step 5 throw, the calls of the catch block throw
\* as well, and the invocation rejects without another write.
RepositoryFails ==
    /\ pc \in {"loop", "unit", "call", "answer"}
    /\ op = "process"
    /\ request' = NoRequest
    /\ response' = "none"
    /\ Finish("thrown", "repository")
    /\ sincePause' = 0
    /\ UNCHANGED <<purchase, items, units, storeOptions, op, requests,
                   attached, attachFailed, extraButPause>>

NextDb ==
    \/ Next
    \/ RepositoryFails

\* an order of one item
InitDb == Init /\ Len(items) = 1 /\ Len(units) <= MaxUnitsSmall

SpecDb == InitDb /\ [][NextDb]_vars

\* ---- the Verifier against an issuer whose prices move ----------------------
\* the issuer changes the wholesale range of an option
IssuerReprice ==
    /\ pc = "idle"
    /\ \E c \in DOMAIN catalogue : \E lo \in 1..MaxPrice : \E hi \in lo..MaxPrice :
          /\ catalogue[c] # [min_wholesale_value |-> lo, max_wholesale_value |-> hi]
          /\ catalogue' = [catalogue EXCEPT ![c] =
                              [min_wholesale_value |-> lo,
                               max_wholesale_value |-> hi]]
    /\ UNCHANGED <<purchase, items, units, storeOptions, pc, op, queue,
                   successCount, failureCount, groups, result, error, request,
                   response, returned, running, updatedCount, lookupFailed,
                   sincePause, moreVars, requests, attached, attachFailed>>

\* checkBalanceAndUpdatePricing called on its own runs to its return
CheckBalance ==
    /\ pc = "idle"
    /\ op' = "check"
    /\ \E plafond \in Plafonds(TotalCost(RepriceItems(items, MinWholesale(catalogue),
                                                      Len(items) + 1))) :
          LET chk == checkBalanceAndUpdatePricing(purchase, items, plafond,
                                                  MinWholesale(catalogue))
          IN  /\ purchase' = chk.purchase
              /\ items' = chk.items
              /\ storeOptions' = RepriceOptions(storeOptions, items,
                                     MinWholesale(catalogue), Len(items) + 1)
              /\ returned' = [balance |-> chk.balance,
                              sufficient |-> chk.sufficient,
                              totalCost |-> chk.totalCost]
    /\ Finish("returned", "none")
    /\ UNCHANGED <<units, request, response, running, catalogue, requests,
                   updatedCount, lookupFailed, sincePause, moreVars, attached,
                   attachFailed>>

\* checkBalanceAndUpdatePricing called on its own throws: authenticateWithUbiqfy
\* fails (k = 0) or the pricing lookup of item k does
CheckBalanceThrows ==
    /\ pc = "idle"
    /\ op' = "check"
    /\ \E k \in 0..Len(items) :
          /\ items' = RepriceItems(items, MinWholesale(catalogue), k)
          /\ storeOptions' = RepriceOptions(storeOptions, items,
                                            MinWholesale(catalogue), k)
    /\ Finish("thrown", "verifier")
    /\ UNCHANGED <<purchase, units, request, response, returned, running,
                   catalogue, updatedCount, lookupFailed, sincePause, moreVars,
                   requests, attached, attachFailed>>

NextPricing ==
    \/ IssuerReprice
    \/ CheckBalance
    \/ CheckBalanceThrows
    \/ Return

\* an order of at most MaxUnitsSmall units
InitPricing == Init /\ Len(units) <= MaxUnitsSmall

SpecPricing == InitPricing /\ [][NextPricing]_vars

\* ---- the Verifier called on an order in any status ------------------------
\* checkBalanceAndUpdatePricing is called on its own between the runs of the
\* pipeline, against an issuer whose prices move
NextCheck ==
    \/ Next
    \/ IssuerReprice
    \/ CheckBalance
    \/ CheckBalanceThrows

\* an order of one item
InitCheck == Init /\ Len(items) = 1 /\ Len(units) <= MaxUnitsSmall

SpecCheck == InitCheck /\ [][NextCheck]_vars

\* ---- the bulk refresh of a store's prices ----------------------------------
\* what updateAllStorePricing leaves alone
orderVars ==
    <<purchase, items, units, request, response, returned, running, catalogue,
      sincePause, moreVars, requests, attached, attachFailed>>

\* updateAllStorePricing: the store and its option rows are loaded, or the
\* store is not found
UpdateAllStart ==
    /\ pc = "idle"
    /\ op' = "bulk"
    /\ \/ /\ pc' = "bulk"
          /\ queue' = Indexes(storeOptions)
          /\ updatedCount' = 0
          /\ lookupFailed' = {}
          /\ result' = "running"
          /\ error' = "none"
          /\ UNCHANGED <<successCount, failureCount, groups>>
       \/ /\ Finish("thrown", "Store not found")
          /\ UNCHANGED <<updatedCount, lookupFailed>>
    /\ UNCHANGED <<storeOptions, orderVars>>

\* variant: a failed lookup is thrown out of the loop
UpdateAllOption_Rethrows ==
    /\ pc = "bulk"
    /\ queue # <<>>
    /\ LET code == storeOptions[Head(queue)].option_code
       IN  \/ /\ lookupFailed' = lookupFailed \cup {code}
              /\ Finish("thrown", "pricing")
              /\ UNCHANGED <<storeOptions, updatedCount>>
           \/ /\ storeOptions' = updateSallaStoreProductOptionPricing(
                                    storeOptions, code, catalogue[code])
              /\ updatedCount' = updatedCount + 1
              /\ queue' = Tail(queue)
              /\ UNCHANGED <<lookupFailed, pc, successCount, failureCount,
                             groups, result, error>>
    /\ UNCHANGED <<op, orderVars>>

\* updateAllStorePricing, loop body: the lookup of the next row's option throws
\* and is logged, or it answers and the option's rows are repriced
UpdateAllOption ==
    /\ pc = "bulk"
    /\ queue # <<>>
    /\ LET code == storeOptions[Head(queue)].option_code
       IN  \/ /\ lookupFailed' = lookupFailed \cup {code}
              /\ UNCHANGED <<storeOptions, updatedCount>>
           \/ /\ storeOptions' = updateSallaStoreProductOptionPricing(
                                    storeOptions, code, catalogue[code])
              /\ updatedCount' = updatedCount + 1
              /\ UNCHANGED lookupFailed
    /\ queue' = Tail(queue)
    /\ UNCHANGED <<pc, op, successCount, failureCount, groups, result, error,
                   orderVars>>

\* updateAllStorePricing returns {updatedCount}
UpdateAllFinish ==
    /\ pc = "bulk"
    /\ queue = <<>>
    /\ Finish("returned", "none")
    /\ UNCHANGED <<op, storeOptions, updatedCount, lookupFailed, orderVars>>

NextBulk ==
    \/ IssuerReprice
    \/ UpdateAllStart
    \/ UpdateAllOption
    \/ UpdateAllFinish
    \/ Return

SpecBulk == Init /\ [][NextBulk]_vars

\* ---- one run of processPurchaseOrder on a large order ---------------------
\* an order of one item of MaxBurstUnits units, not yet processed
InitPause ==
    /\ items = <<[product_option_code |-> 1, quantity_ordered |-> MaxBurstUnits,
                  unit_face_value |-> 2, unit_wholesale_price |-> 1,
                  total_wholesale_cost |-> MaxBurstUnits]>>
    /\ storeOptions = <<[option_code |-> 1, salla_product_id |-> 11,
                         wholesale_price_usd |-> 1, stock_quantity |-> 0]>>
    /\ units = ExpandItems(items, 1)
    /\ purchase = [status |-> "PENDING", error_message |-> "null",
                   total_wholesale_cost |-> TotalCost(items),
                   ubiqfy_balance_before |-> 0,
                   total_vouchers_generated |-> 0,
                   total_vouchers_failed |-> 0,
                   processing_started_at |-> FALSE,
                   processing_completed_at |-> FALSE]
    /\ catalogue = [c \in {1} |-> [min_wholesale_value |-> 1,
                                   max_wholesale_value |-> 1]]
    /\ pc = "idle"
    /\ op = "none"
    /\ queue = <<>>
    /\ successCount = 0
    /\ failureCount = 0
    /\ groups = <<>>
    /\ result = "none"
    /\ error = "none"
    /\ request = NoRequest
    /\ response = "none"
    /\ returned = NotReturned
    /\ updatedCount = 0
    /\ lookupFailed = {}
    /\ sincePause = 0
    /\ orders = <<>>
    /\ wallet = 0
    /\ NoWebhook
    /\ running = [s \in Slots |-> NoInvocation]
    /\ requests = [u \in DOMAIN units |-> 0]
    /\ attached = [u \in DOMAIN units |-> 0]
    /\ attachFailed = [u \in DOMAIN units |-> FALSE]

\* the issuer issues the voucher, or the call fails
IssuerIssuesOrFails ==
    /\ pc = "call"
    /\ \E outcome \in {"ok", "http_error"} : response' = outcome
    /\ request' = NoRequest
    /\ pc' = "answer"
    /\ UNCHANGED <<purchase, items, units, storeOptions, op, queue,
                   successCount, failureCount, groups, result, error,
                   requests, attached, attachFailed, extra>>

NextPause ==
    \/ ProcessStart
    \/ VoucherBegin
    \/ VoucherSend
    \/ IssuerIssuesOrFails
    \/ VoucherEnd
    \/ ProcessFinish
    \/ AttachGroup
    \/ PublishFinish

SpecPause == InitPause /\ [][NextPause]_vars

\* ---- concurrent invocations of retryFailedVouchers --------------------------
\* The order as a run of processPurchaseOrder leaves it when no unit was
\* issued: unit u was answered outcome[u], a rejection or a failed call.
AfterFailedRun(n, outcome) ==
    LET its == <<[product_option_code |-> 1, quantity_ordered |-> n,
                  unit_face_value |-> 2, unit_wholesale_price |-> 1,
                  total_wholesale_cost |-> n]>>
        pending == ExpandItems(its, 1)
        us == [u \in 1..n |->
                 ExecuteVoucher(MarkProcessing(pending[u]), u, outcome[u])]
        sc == Cardinality({u \in 1..n : ~Throws(outcome[u])})
        fc == Cardinality({u \in 1..n : Throws(outcome[u])})
        chk == checkBalanceAndUpdatePricing(
                  [status |-> "PENDING", error_message |-> "null",
                   total_wholesale_cost |-> n, ubiqfy_balance_before |-> 0,
                   total_vouchers_generated |-> 0, total_vouchers_failed |-> 0,
                   processing_started_at |-> FALSE,
                   processing_completed_at |-> FALSE],
                  its, n, IssuerPrice(its))
    IN  [items |-> its,
         units |-> us,
         purchase |-> updatePurchaseCounts(
                         updatePurchaseStatus(
                            updatePurchaseStatus(chk.purchase, "PROCESSING"),
                            FinalStatus(sc, fc)),
                         us)]

InitConc ==
    /\ \E n \in 1..MaxUnitsSmall :
       \E outcome \in [1..n -> {"reject", "http_error"}] :
          LET o == AfterFailedRun(n, outcome)
          IN  /\ items = o.items
              /\ units = o.units
              /\ purchase = o.purchase
    /\ storeOptions = <<[option_code |-> 1, salla_product_id |-> 11,
                         wholesale_price_usd |-> 1, stock_quantity |-> 0]>>
    /\ catalogue = [c \in {1} |-> [min_wholesale_value |-> 1,
                                   max_wholesale_value |-> 1]]
    /\ pc = "idle"
    /\ op = "none"
    /\ queue = <<>>
    /\ successCount = 0
    /\ failureCount = 0
    /\ groups = <<>>
    /\ result = "none"
    /\ error = "none"
    /\ request = NoRequest
    /\ response = "none"
    /\ returned = NotReturned
    /\ updatedCount = 0
    /\ lookupFailed = {}
    /\ sincePause = 0
    /\ orders = <<>>
    /\ wallet = 0
    /\ NoWebhook
    /\ running = [s \in Slots |-> NoInvocation]
    /\ requests = [u \in DOMAIN units |-> 1]
    /\ attached = [u \in DOMAIN units |-> 0]
    /\ attachFailed = [u \in DOMAIN units |-> FALSE]

\* purchaseDetailRepository.find(...): the entities an invocation holds in
\* memory, each with the id of its row
LoadEntities(us, ids) ==
    [k \in DOMAIN ids |-> [id |-> ids[k], entity |-> us[ids[k]]]]

\* what no concurrent invocation writes
sequentialVars ==
    <<items, storeOptions, pc, op, queue, successCount, failureCount, groups,
      result, error, request, response, returned, catalogue, updatedCount,
      lookupFailed, sincePause, moreVars, attached, attachFailed>>

\* retryFailedVouchers in slot s: the load of the failed vouchers
ConcRetryStart(s) ==
    /\ running[s].pc = "idle"
    /\ SumSeq(requests) < MaxRequests
    /\ running' = [running EXCEPT ![s] =
                      [pc |-> "loop",
                       queue |-> LoadEntities(units, FindFailed(units)),
                       sent |-> {}]]
    /\ UNCHANGED <<purchase, units, requests, sequentialVars>>

\* retryFailedVouchers in slot s: a voucher of the list that is not retried
ConcRetrySkip(s) ==
    /\ running[s].pc = "loop"
    /\ running[s].queue # <<>>
    /\ ~RetryAllowed(Head(running[s].queue).entity)
    /\ running' = [running EXCEPT ![s].queue = Tail(@)]
    /\ UNCHANGED <<purchase, units, requests, sequentialVars>>

\* processSingleVoucher in slot s, first save: the entity the invocation holds
\* is marked PROCESSING and written to its row
ConcVoucherBegin(s) ==
    /\ running[s].pc = "loop"
    /\ running[s].queue # <<>>
    /\ RetryAllowed(Head(running[s].queue).entity)
    /\ LET h == Head(running[s].queue)
           v == MarkProcessing(h.entity)
       IN  /\ units' = save(units, h.id, v)
           /\ running' = [running EXCEPT
                             ![s].pc = "unit",
                             ![s].queue = <<[id |-> h.id, entity |-> v]>>
                                          \o Tail(running[s].queue)]
    /\ UNCHANGED <<purchase, requests, sequentialVars>>

\* processSingleVoucher in slot s: the request is posted to the issuer
ConcVoucherSend(s) ==
    /\ running[s].pc = "unit"
    /\ requests' = [requests EXCEPT ![Head(running[s].queue).id] = @ + 1]
    /\ running' = [running EXCEPT
                      ![s].pc = "call",
                      ![s].sent = @ \cup {Head(running[s].queue).id}]
    /\ UNCHANGED <<purchase, units, sequentialVars>>

\* processSingleVoucher in slot s: the issuer's answer and the save of the
\* entity with its outcome
ConcVoucherEnd(s) ==
    /\ running[s].pc = "call"
    /\ \E outcome \in Outcomes :
          LET h == Head(running[s].queue)
          IN  units' = save(units, h.id, ExecuteVoucher(h.entity, h.id, outcome))
    /\ running' = [running EXCEPT ![s].pc = "loop", ![s].queue = Tail(@)]
    /\ UNCHANGED <<purchase, requests, sequentialVars>>

\* retryFailedVouchers in slot s: after the loop
ConcRetryFinish(s) ==
    /\ running[s].pc = "loop"
    /\ running[s].queue = <<>>
    /\ purchase' = updatePurchaseCounts(purchase, units)
    /\ running' = [running EXCEPT ![s] = NoInvocation]
    /\ UNCHANGED <<units, requests, sequentialVars>>

NextConc ==
    \E s \in Slots :
       \/ ConcRetryStart(s)
       \/ ConcRetrySkip(s)
       \/ ConcVoucherBegin(s)
       \/ ConcVoucherSend(s)
       \/ ConcVoucherEnd(s)
       \/ ConcRetryFinish(s)

SpecConc == InitConc /\ [][NextConc]_vars

\* ---- properties ------------------------------------------------------------
Generated == CountByStatus(units, "GENERATED")
Failed == CountByStatus(units, "FAILED")

\* the terminal status the unit tally calls for
TerminalRule ==
    IF Failed = 0 /\ Generated > 0 THEN "COMPLETED"
    ELSE IF Generated = 0 THEN "FAILED"
    ELSE "PARTIALLY_COMPLETED"

\* a run of processPurchaseOrder has ended after passing the balance check
ProcessedPastBalanceCheck ==
    /\ pc = "done"
    /\ op = "process"
    /\ error \notin {"verifier", "Insufficient balance to process purchase"}

\* C1: when a run of processPurchaseOrder has returned, the order is COMPLETED
\* iff it has no FAILED unit and at least one GENERATED unit, FAILED iff it has
\* no GENERATED unit, and PARTIALLY_COMPLETED otherwise.
C1_TerminalStatusFollowsTally ==
    (pc = "done" /\ op = "process" /\ result = "returned")
        => purchase.status = TerminalRule

\* C2: no unit is ever the subject of more than 3 issuance requests.
C2_AtMostThreeRequestsPerUnit ==
    \A u \in DOMAIN units : requests[u] <= 3

\* C3: retry_count never exceeds 3, and retryFailedVouchers marks PROCESSING
\* and sends to the issuer only units that were FAILED with retry_count < 3.
C3_RetryOnlyFailedBelowCap ==
    /\ [](\A u \in DOMAIN units : units[u].retry_count <= 3)
    /\ [][op = "retry" =>
            \A u \in DOMAIN units :
               /\ (units'[u].status = "PROCESSING" /\ units[u].status # "PROCESSING")
                     => (units[u].status = "FAILED" /\ units[u].retry_count < 3)
               /\ requests'[u] # requests[u]
                     => (units[u].status = "PROCESSING" /\ units[u].retry_count < 3)
         ]_vars

\* C3 witness: a retry run stands before a FAILED unit that has used up its
\* three attempts
C3_Witness ==
    /\ pc = "loop"
    /\ op = "retry"
    /\ queue # <<>>
    /\ units[Head(queue)].status = "FAILED"
    /\ units[Head(queue)].retry_count = 3

\* C4: once a run of processPurchaseOrder that passed the balance check has
\* ended, every unit is GENERATED or FAILED, so their number is the sum of the
\* items' quantity_ordered.
C4_AllUnitsSettled ==
    ProcessedPastBalanceCheck =>
        /\ Generated + Failed =
              SumSeq([i \in DOMAIN items |-> items[i].quantity_ordered])
        /\ \A u \in DOMAIN units : units[u].status \notin {"PENDING", "PROCESSING"}

\* C4 witness: such a run has ended with a mix of GENERATED and FAILED units
C4_Witness ==
    /\ ProcessedPastBalanceCheck
    /\ result = "returned"
    /\ Generated > 0
    /\ Failed > 0

\* C5: a run of processPurchaseOrder that finds the issuer balance below the
\* total cost ends with the order FAILED, an error message stored and the error
\* thrown to the caller, and it changes no unit and sends no issuance request.
C5_InsufficientBalanceIsFatal ==
    /\ []((pc = "done" /\ op = "process"
              /\ purchase.ubiqfy_balance_before < purchase.total_wholesale_cost)
            => /\ purchase.status = "FAILED"
               /\ purchase.error_message # "null"
               /\ result = "thrown")
    /\ [][(op' = "process"
              /\ purchase'.ubiqfy_balance_before < purchase'.total_wholesale_cost)
            => (units' = units /\ requests' = requests)]_vars

\* C5 witness: a run has been refused for its balance
C5_Witness ==
    /\ pc = "done"
    /\ op = "process"
    /\ purchase.ubiqfy_balance_before < purchase.total_wholesale_cost
    /\ error = "Insufficient balance to process purchase"

\* the storefront product the unit's option is linked to, 0 when there is none
LinkedProduct(u) ==
    LET k == FindOption(storeOptions,
                        items[units[u].purchase_item_id].product_option_code)
    IN  IF k = 0 THEN 0 ELSE storeOptions[k].salla_product_id

\* a unit whose code the storefront can take
Publishable(u) ==
    /\ units[u].status = "GENERATED"
    /\ units[u].reference # 0
    /\ LinkedProduct(u) # 0

\* C6: no code is attached to the storefront more than once, and the Publisher
\* never has the code of an already published unit among the codes to submit.
C6_PublishedAtMostOnce ==
    /\ \A u \in DOMAIN units : attached[u] <= 1
    /\ pc = "attach" =>
          \A k \in DOMAIN groups : \A u \in DOMAIN units :
             InCodes(units[u].reference, groups[k].codes)
                => ~units[u].salla_synced

\* the order of the scenario: one item of quantity 3 with a linked option, every
\* unit issued at the first request, every code attached once without a failure
C7_Scenario ==
    /\ Len(items) = 1
    /\ items[1].quantity_ordered = 3
    /\ pc = "done"
    /\ op = "process"
    /\ result = "returned"
    /\ \A u \in DOMAIN units :
          /\ units[u].status = "GENERATED"
          /\ requests[u] = 1
          /\ attached[u] = 1
          /\ ~attachFailed[u]

\* C7: a successful attachment of a group of N codes flags each of its N units
\* as synced, with the timestamp, and adds exactly N to the stock counter of
\* the group's storefront product and to no other; the scenario order ends
\* COMPLETED with 3 GENERATED units and 3 added to the stock counter.
C7_AttachFlagsUnitsAndAddsStock ==
    /\ [][(pc = "attach" /\ groups # <<>> /\ pc' = "attach") =>
            LET g == Head(groups)
                N == Cardinality({u \in DOMAIN units :
                                     InCodes(units[u].reference, g.codes)})
            IN  /\ N = Len(g.codes)
                /\ \A u \in DOMAIN units :
                      InCodes(units[u].reference, g.codes)
                         => (units'[u].salla_synced /\ units'[u].salla_synced_at)
                /\ \A k \in DOMAIN storeOptions :
                      storeOptions'[k].stock_quantity =
                         IF storeOptions[k].salla_product_id = g.sallaProductId
                         THEN storeOptions[k].stock_quantity + N
                         ELSE storeOptions[k].stock_quantity
         ]_vars
    /\ [](C7_Scenario =>
             /\ purchase.status = "COMPLETED"
             /\ Generated = 3
             /\ purchase.total_vouchers_generated = 3
             /\ storeOptions[1].stock_quantity = 3)

\* C7 witness: the scenario has run
C7_Witness == C7_Scenario /\ \A u \in DOMAIN units : units[u].salla_synced

\* C8: a failed attachment changes no unit and no stock counter and is not
\* thrown out of processPurchaseOrder; the Publisher never changes the order,
\* a unit's status or its code; every publishable unit that is not yet
\* published is among the codes of a Publisher run, and is published when the
\* run returns.
C8_PublisherFailureIsIsolated ==
    /\ [][pc = "attach" =>
            /\ purchase' = purchase
            /\ \A u \in DOMAIN units :
                  /\ units'[u].status = units[u].status
                  /\ units'[u].reference = units[u].reference
         ]_vars
    /\ [][(pc = "attach" /\ groups # <<>> /\ pc' = "done") =>
            /\ units' = units
            /\ storeOptions' = storeOptions
            /\ op = "process" => result' = "returned"
         ]_vars
    /\ [](pc = "attach" =>
            \A u \in DOMAIN units :
               (Publishable(u) /\ ~units[u].salla_synced)
                  => \E k \in DOMAIN groups :
                        InCodes(units[u].reference, groups[k].codes))
    /\ []((pc = "done" /\ op = "publish" /\ result = "returned") =>
            \A u \in DOMAIN units : Publishable(u) => units[u].salla_synced)

\* C8 witness: a Publisher run has published a code whose earlier attachment
\* had failed
C8_Witness ==
    /\ pc = "done"
    /\ op = "publish"
    /\ result = "returned"
    /\ \E u \in DOMAIN units :
          /\ attachFailed[u]
          /\ attached[u] = 1
          /\ units[u].status = "GENERATED"
          /\ units[u].salla_synced

\* C9: when retryFailedVouchers has returned, the order's status is the one
\* the terminal-status rule gives for the current GENERATED and FAILED units.
C9_StatusRecountedAfterRetry ==
    (pc = "done" /\ op = "retry") => purchase.status = TerminalRule

\* C10: every item keeps exactly quantity_ordered units, and processPurchaseOrder
\* marks PROCESSING and sends to the issuer only units that were PENDING and
\* have never been sent before.
C10_UnitsNeitherCreatedNorReissued ==
    /\ [](\A i \in DOMAIN items :
            Cardinality({u \in DOMAIN units : units[u].purchase_item_id = i})
               = items[i].quantity_ordered)
    /\ [][/\ Len(units') = Len(units)
          /\ op = "process" =>
               \A u \in DOMAIN units :
                  /\ (units'[u].status = "PROCESSING"
                         /\ units[u].status # "PROCESSING")
                        => units[u].status = "PENDING"
                  /\ requests'[u] # requests[u] => requests[u] = 0
         ]_vars

\* C10 witness: a later run of processPurchaseOrder has found nothing to do on
\* an order whose units are already GENERATED or FAILED
C10_Witness ==
    /\ pc = "loop"
    /\ op = "process"
    /\ queue = <<>>
    /\ successCount = 0
    /\ failureCount = 0
    /\ Generated > 0
    /\ Failed > 0

\* C11: every status change of a unit is PENDING -> PROCESSING,
\* PROCESSING -> GENERATED, PROCESSING -> FAILED or, in a retry run only,
\* FAILED -> PROCESSING; a GENERATED unit never changes status and is never
\* sent to the issuer again.
C11_UnitStatusMachine ==
    [][\A u \in DOMAIN units :
          /\ units'[u].status # units[u].status =>
                \/ units[u].status = "PENDING" /\ units'[u].status = "PROCESSING"
                \/ units[u].status = "PROCESSING"
                      /\ units'[u].status \in {"GENERATED", "FAILED"}
                \/ units[u].status = "FAILED" /\ units'[u].status = "PROCESSING"
                      /\ op = "retry"
          /\ units[u].status = "GENERATED" =>
                /\ units'[u].status = "GENERATED"
                /\ requests'[u] = requests[u]
     ]_vars

\* C11 witness: a retry run is working on a FAILED unit of an order one of
\* whose units was GENERATED by an earlier retry
C11_Witness ==
    /\ op = "retry"
    /\ pc = "unit"
    /\ units[Head(queue)].status = "PROCESSING"
    /\ requests[Head(queue)] >= 1
    /\ \E u \in DOMAIN units :
          units[u].status = "GENERATED" /\ requests[u] >= 2

\* C12: the order's status changes only along PENDING -> PROCESSING ->
\* {COMPLETED, PARTIALLY_COMPLETED, FAILED}, counting the Verifier's reset of a
\* FAILED order to PENDING and the pre-flight failure of a PENDING order:
\* processPurchaseOrder moves to PROCESSING only an order that was PENDING (or
\* FAILED and reset), a COMPLETED or PARTIALLY_COMPLETED order never returns to
\* PROCESSING, and a CANCELLED order never changes status.
C12_OrderStatusMachine ==
    [][purchase'.status # purchase.status =>
          \/ purchase.status = "PENDING"
                /\ purchase'.status \in {"PROCESSING", "FAILED"}
          \/ purchase.status = "FAILED" /\ purchase'.status = "PROCESSING"
          \/ purchase.status = "PROCESSING"
                /\ purchase'.status \in {"COMPLETED", "PARTIALLY_COMPLETED", "FAILED"}
     ]_vars

\* C13: every issuance request in flight carries Quantity 1, ProductTypeCode
\* "Voucher", the option code and the face value of the unit's item and the
\* unit's external_id, and no step changes the external_id of a unit, so every
\* attempt on a unit carries the same ExternalId.
C13_RequestContent ==
    /\ [](pc = "call" =>
            LET v == units[Head(queue)]
                item == items[v.purchase_item_id]
            IN  /\ request.Quantity = 1
                /\ request.ProductTypeCode = "Voucher"
                /\ request.ProductOptionCode = item.product_option_code
                /\ request.Amount = item.unit_face_value
                /\ request.ExternalId = v.external_id)
    /\ [][\A u \in DOMAIN units :
             units'[u].external_id = units[u].external_id]_vars

\* C13 witness: the request of a retry, the unit's second or later attempt, is
\* in flight for a unit of the second item
C13_Witness ==
    /\ pc = "call"
    /\ op = "retry"
    /\ requests[Head(queue)] >= 2
    /\ units[Head(queue)].purchase_item_id = 2
    /\ request = DoTransactionRequest(units[Head(queue)], items)

\* the total cost at the issuer's minimum wholesale values
CostAtMinimum ==
    SumSeq([i \in DOMAIN items |->
               items[i].quantity_ordered
                  * catalogue[items[i].product_option_code].min_wholesale_value])

\* checkBalanceAndUpdatePricing, called on its own, has returned
CheckReturned == pc = "done" /\ op = "check" /\ result = "returned"

\* C14: checkBalanceAndUpdatePricing returns sufficient = TRUE iff the balance
\* in cents is at least the total cost in cents, the total cost being the sum
\* of quantity_ordered times the issuer's minimum wholesale value, and the
\* returned total cost is the order's saved total_wholesale_cost.
C14_SufficientIffBalanceCoversCost ==
    CheckReturned =>
        /\ returned.sufficient <=> (returned.balance * 100 >= CostAtMinimum * 100)
        /\ returned.totalCost = CostAtMinimum
        /\ returned.totalCost = purchase.total_wholesale_cost

\* C14 witness: a check has returned sufficient on a balance equal to the total
\* cost, for an option whose range has a minimum below its maximum and an item
\* whose price has changed
C14_Witness ==
    /\ CheckReturned
    /\ returned.balance = returned.totalCost
    /\ returned.sufficient
    /\ \E c \in DOMAIN catalogue :
          catalogue[c].min_wholesale_value < catalogue[c].max_wholesale_value
    /\ \E i \in DOMAIN items : items[i].unit_wholesale_price = 2

\* C15: the order's total_wholesale_cost is the sum of its items'
\* total_wholesale_cost, and each item's total_wholesale_cost is its
\* quantity_ordered times its unit_wholesale_price, also after a Verifier run
\* that stopped at a failed pricing lookup.
C15_TotalsConsistent ==
    /\ purchase.total_wholesale_cost = TotalCost(items)
    /\ \A i \in DOMAIN items :
          items[i].total_wholesale_cost =
             items[i].quantity_ordered * items[i].unit_wholesale_price

\* C16: of the invocations that run concurrently on one order, no two hold the
\* same unit between its PROCESSING save and the save of its outcome, and no
\* two have sent the same unit to the issuer.
C16_SingleWriter ==
    \A i \in Slots : \A j \in Slots \ {i} :
       /\ ~ /\ running[i].pc \in {"unit", "call"}
            /\ running[j].pc \in {"unit", "call"}
            /\ Head(running[i].queue).id = Head(running[j].queue).id
       /\ running[i].sent \cap running[j].sent = {}

\* C17: when an invocation of processPurchaseOrder has returned or thrown, with
\* every call it made having returned or failed, the order is COMPLETED,
\* PARTIALLY_COMPLETED or FAILED with processing_completed_at stamped; it is
\* not left in PROCESSING.
C17_NeverLeftProcessing ==
    (pc = "done" /\ op = "process") =>
        /\ purchase.status \in {"COMPLETED", "PARTIALLY_COMPLETED", "FAILED"}
        /\ purchase.processing_completed_at

\* C18: the Executor saves an answer with OperationSucceeded = true as
\* GENERATED with the issued code and retry_count unchanged, an answer with
\* OperationSucceeded = false as FAILED with the issuer's error text, and a
\* failed call as FAILED with retry_count one higher and the error's message;
\* in each case it saves a new response_received_at and the elapsed time.
C18_OutcomeMapping ==
    [][(pc = "answer" /\ pc' = "loop") =>
          LET u == Head(queue)
              v == units[u]
              w == units'[u]
          IN  /\ response \in {"ok", "ok_noref"} =>
                    /\ w.status = "GENERATED"
                    /\ w.retry_count = v.retry_count
                    /\ response = "ok" => w.reference = u
              /\ response \in {"reject", "reject_notext"} =>
                    /\ w.status = "FAILED"
                    /\ response = "reject" => w.error_text = "issuer error text"
              /\ response = "http_error" =>
                    /\ w.status = "FAILED"
                    /\ w.retry_count = v.retry_count + 1
                    /\ w.error_text = "HTTP 500"
              /\ w.response_received_at > v.response_received_at
              /\ w.response_received_at > v.request_sent_at
              /\ w.response_time_ms = w.response_received_at - v.request_sent_at
     ]_vars

\* C18 witness: a unit's second attempt ended in a failed call, next to a unit
\* that was issued
C18_Witness ==
    /\ \E u \in DOMAIN units :
          /\ units[u].status = "FAILED"
          /\ units[u].retry_count = 1
          /\ units[u].error_text = "HTTP 500"
          /\ units[u].response_received_at = 4
          /\ units[u].response_time_ms = 1
    /\ \E u \in DOMAIN units :
          /\ units[u].status = "GENERATED"
          /\ units[u].reference = u
          /\ units[u].response_time_ms = 1

\* a step in which processSingleVoucher ends with its voucher FAILED
UnitFails ==
    /\ pc \in {"unit", "answer"}
    /\ pc' = "loop"
    /\ units'[Head(queue)].status = "FAILED"

\* C19: a unit's failure (rejection, failed call, authentication failure in the
\* Executor) is saved on that unit alone, leaves the order as it is and the run
\* going with the rest of its list; a run of processPurchaseOrder keeps every
\* PENDING unit in its list until it has attempted it, and never throws a
\* unit's error to its caller.
C19_UnitFailureIsIsolated ==
    /\ [][UnitFails =>
            /\ \A w \in DOMAIN units \ {Head(queue)} : units'[w] = units[w]
            /\ purchase' = purchase
            /\ queue' = Tail(queue)
            /\ result' = "running"
         ]_vars
    /\ []((op = "process" /\ pc \in {"loop", "unit", "call", "answer"}) =>
             \A w \in DOMAIN units :
                units[w].status = "PENDING"
                   => \E k \in DOMAIN queue : queue[k] = w)
    /\ []((pc = "done" /\ op = "process" /\ result = "thrown") =>
             error \in {"verifier", "auth",
                        "Insufficient balance to process purchase"})

\* C19 witness: a run of processPurchaseOrder has returned after the first unit
\* failed on authentication, without a request, and the second was issued
C19_Witness ==
    /\ pc = "done"
    /\ op = "process"
    /\ result = "returned"
    /\ Len(units) = 2
    /\ units[1].status = "FAILED"
    /\ units[1].error_text = "authentication failed"
    /\ requests[1] = 0
    /\ units[2].status = "GENERATED"
    /\ requests[2] = 1

\* C20: when processPurchaseOrder or retryFailedVouchers has returned or
\* thrown, the order's total_vouchers_generated is the number of its GENERATED
\* units and its total_vouchers_failed the number of its FAILED units.
C20_CountsMatchUnits ==
    (pc = "done" /\ op \in {"process", "retry"}) =>
        /\ purchase.total_vouchers_generated = Generated
        /\ purchase.total_vouchers_failed = Failed

\* C21: when authentication fails at the balance snapshot after the loop, the
\* order's status is the one the unit tally gives, its counts are those of the
\* units, and an order with a GENERATED unit is not FAILED.
C21_SnapshotFailureKeepsTally ==
    (pc = "done" /\ op = "process" /\ error = "auth") =>
        /\ purchase.status = TerminalRule
        /\ purchase.total_vouchers_generated = Generated
        /\ purchase.total_vouchers_failed = Failed
        /\ Generated > 0 => purchase.status # "FAILED"

\* C22: a run of processPurchaseOrder in which a voucher call returned does not
\* return before the Publisher's attachment loop when a GENERATED unit with a
\* code and a storefront linkage is unpublished; and when retryFailedVouchers
\* has returned, every such unit that a retry issued is published, unless a
\* storefront call has failed.
C22_GeneratedCodesArePublished ==
    /\ [][(pc = "loop" /\ op = "process" /\ queue = <<>> /\ successCount > 0
              /\ result' = "returned"
              /\ \E u \in DOMAIN units : Publishable(u) /\ ~units[u].salla_synced)
            => FALSE]_vars
    /\ []((pc = "done" /\ op = "retry" /\ result = "returned") =>
            \A u \in DOMAIN units :
               (Publishable(u) /\ requests[u] >= 2) =>
                  \/ units[u].salla_synced
                  \/ \E w \in DOMAIN units : attachFailed[w])

\* the order is FAILED and the balance its last check saved was below its cost
ShortfallFailed ==
    /\ purchase.status = "FAILED"
    /\ purchase.ubiqfy_balance_before < purchase.total_wholesale_cost

\* C23: a call of checkBalanceAndUpdatePricing that finds the balance
\* sufficient resets an order that is FAILED for a balance shortfall to PENDING
\* and clears its error message, and a call changes the order's status in no
\* other case.
C23_ResetOnlyAfterShortfall ==
    [][(pc = "idle" /\ op' = "check") =>
          /\ (ShortfallFailed /\ result' = "returned" /\ returned'.sufficient)
                => (purchase'.status = "PENDING"
                       /\ purchase'.error_message = "null")
          /\ purchase'.status # purchase.status
                => (ShortfallFailed /\ result' = "returned"
                       /\ returned'.sufficient)
     ]_vars

\* C24: no step of checkBalanceAndUpdatePricing, called on its own or by
\* processPurchaseOrder, changes an item's unit_wholesale_price or
\* total_wholesale_cost or the order's total_wholesale_cost on an order that is
\* PROCESSING, COMPLETED or PARTIALLY_COMPLETED.
C24_PricingFrozenOnceProcessing ==
    [][(pc = "idle" /\ op' \in {"check", "process"}
           /\ purchase.status \in {"PROCESSING", "COMPLETED", "PARTIALLY_COMPLETED"})
         => /\ purchase'.total_wholesale_cost = purchase.total_wholesale_cost
            /\ \A i \in DOMAIN items :
                  /\ items'[i].unit_wholesale_price = items[i].unit_wholesale_price
                  /\ items'[i].total_wholesale_cost = items[i].total_wholesale_cost
     ]_vars

\* a step of processSingleVoucher on the voucher at the head of the list
ExecutorStep ==
    \/ pc = "loop" /\ pc' = "unit"
    \/ pc \in {"unit", "call", "answer"}

\* C25: a step of processSingleVoucher leaves the order row, every item, every
\* stock counter and every unit but the one it was given unchanged.
C25_ExecutorWritesOnlyItsUnit ==
    [][ExecutorStep =>
          /\ purchase' = purchase
          /\ items' = items
          /\ storeOptions' = storeOptions
          /\ DOMAIN units' = DOMAIN units
          /\ \A w \in DOMAIN units \ {Head(queue)} : units'[w] = units[w]
     ]_vars

\* C25 witness: in a run of processPurchaseOrder the first unit of an item has
\* been issued while the second is still PENDING and the order still PROCESSING
\* with counts of zero
C25_Witness ==
    /\ op = "process"
    /\ pc = "loop"
    /\ Len(units) = 2
    /\ units[1].status = "GENERATED"
    /\ units[2].status = "PENDING"
    /\ units[1].purchase_item_id = units[2].purchase_item_id
    /\ purchase.status = "PROCESSING"
    /\ purchase.total_vouchers_generated = 0

\* C26: no step of retryFailedVouchers changes an item, the order's
\* total_wholesale_cost or its ubiqfy_balance_before, whatever the issuer's
\* current prices are and whatever balance the last check found.
C26_RetryLeavesPricingAlone ==
    [][(op = "retry" \/ op' = "retry") =>
          /\ items' = items
          /\ purchase'.total_wholesale_cost = purchase.total_wholesale_cost
          /\ purchase'.ubiqfy_balance_before = purchase.ubiqfy_balance_before
          /\ returned' = returned
     ]_vars

\* C26 witness: a retry has posted a request although the last balance check
\* found the balance below the order's cost and the issuer's price of the
\* option is no longer the item's
C26_Witness ==
    /\ op = "retry"
    /\ pc = "call"
    /\ returned.totalCost > 0
    /\ ~returned.sufficient
    /\ returned.balance < returned.totalCost
    /\ LET item == items[units[Head(queue)].purchase_item_id]
       IN  catalogue[item.product_option_code].min_wholesale_value
              # item.unit_wholesale_price

\* C27: a run of processPurchaseOrder whose pre-flight check throws, on
\* authentication or on the pricing lookup of an item, changes no unit and
\* sends no request, ends with the order FAILED and an error message stored,
\* and throws to its caller.
C27_PreflightFailureAborts ==
    /\ [][(pc = "idle" /\ op' = "process" /\ error' = "verifier") =>
            /\ units' = units
            /\ requests' = requests
            /\ pc' = "done"
         ]_vars
    /\ []((pc = "done" /\ op = "process" /\ error = "verifier") =>
            /\ purchase.status = "FAILED"
            /\ purchase.error_message # "null"
            /\ purchase.processing_completed_at
            /\ result = "thrown")

\* C27 witness: the pre-flight check of a fresh order of two items has thrown
C27_Witness ==
    /\ pc = "done"
    /\ op = "process"
    /\ error = "verifier"
    /\ Len(items) = 2
    /\ \A u \in DOMAIN units : units[u].status = "PENDING" /\ requests[u] = 0
    /\ purchase.status = "FAILED"

\* the rows of the store whose option's lookup did not fail in the bulk run
RefreshedRows ==
    {k \in DOMAIN storeOptions : storeOptions[k].option_code \notin lookupFailed}

\* C28: in updateAllStorePricing a failed lookup changes no row and the loop
\* goes on with the next row; the run changes the row of an option only at that
\* option's own lookup; it throws for no failed lookup; and when it returns,
\* every option whose lookup answered carries the issuer's minimum wholesale
\* value and updatedCount is the number of those options.
C28_BulkLookupFailureIsIsolated ==
    /\ [][(pc = "bulk" /\ queue # <<>>) =>
            /\ \A k \in DOMAIN storeOptions \ {Head(queue)} :
                  storeOptions'[k] = storeOptions[k]
            /\ lookupFailed' # lookupFailed =>
                  /\ storeOptions' = storeOptions
                  /\ updatedCount' = updatedCount
                  /\ pc' = "bulk"
                  /\ queue' = Tail(queue)
         ]_vars
    /\ []((pc = "done" /\ op = "bulk" /\ result = "thrown")
             => error = "Store not found")
    /\ []((pc = "done" /\ op = "bulk" /\ result = "returned") =>
            /\ updatedCount = Cardinality(RefreshedRows)
            /\ \A k \in RefreshedRows :
                  storeOptions[k].wholesale_price_usd =
                     catalogue[storeOptions[k].option_code].min_wholesale_value)

\* C28 witness: a bulk run over two options has returned 1; the first option's
\* lookup failed and its row keeps the old price, the second was repriced
C28_Witness ==
    /\ pc = "done"
    /\ op = "bulk"
    /\ result = "returned"
    /\ Len(storeOptions) = 2
    /\ updatedCount = 1
    /\ lookupFailed = {storeOptions[1].option_code}
    /\ storeOptions[1].wholesale_price_usd = 1
    /\ catalogue[storeOptions[1].option_code].min_wholesale_value = 2
    /\ storeOptions[2].wholesale_price_usd = 2

\* C29: checkBalanceAndUpdatePricing does not return with an item priced from a
\* wholesale range whose minimum and maximum differ (the anomaly is surfaced to
\* its caller), and the price of an item is never a value between the two.
C29_DivergentRangeIsSurfaced ==
    CheckReturned =>
        \A i \in DOMAIN items :
           LET range == catalogue[items[i].product_option_code]
           IN  /\ range.min_wholesale_value = range.max_wholesale_value
               /\ items[i].unit_wholesale_price = range.min_wholesale_value

\* C30: a run of processPurchaseOrder never has more than 10 requests sent
\* since its start or its last pause, whichever of them were answered and
\* whichever failed.
C30_PauseEveryTenRequests == sincePause <= PauseEvery

\* the steps the pipeline takes on its own, without an answer of the issuer
PipelineStep ==
    \/ ProcessStart
    \/ VoucherBegin
    \/ VoucherSend
    \/ VoucherEnd
    \/ ProcessFinish
    \/ RetryStart
    \/ RetrySkip
    \/ RetryFinish
    \/ PublishStart
    \/ AttachGroup
    \/ PublishFinish
    \/ Return

\* C31: while an issuance request is in flight the pipeline has a step of its
\* own to take (the timeout that cuts the call off), so a unit whose request
\* the issuer never answers does not stay PROCESSING and the run goes on.
C31_CallIsCutOffByTimeout ==
    pc = "call" => ENABLED PipelineStep

\* ---- several orders of one store processed at the same time ----------------
MaxOrders == 2       \* orders of the store that are processed concurrently
MaxWallet == 3       \* the store's balance at the issuer ranges over 0..MaxWallet

OrderIds == 1..MaxOrders

\* a purchase row as it is when the order is confirmed
NewPurchase(its) ==
    [status |-> "PENDING", error_message |-> "null",
     total_wholesale_cost |-> TotalCost(its),
     ubiqfy_balance_before |-> 0,
     total_vouchers_generated |-> 0,
     total_vouchers_failed |-> 0,
     processing_started_at |-> FALSE,
     processing_completed_at |-> FALSE]

\* the variables of the single order hold no order
NoOrder ==
    /\ items = <<>>
    /\ units = <<>>
    /\ purchase = NewPurchase(<<>>)
    /\ pc = "idle"
    /\ op = "none"
    /\ queue = <<>>
    /\ successCount = 0
    /\ failureCount = 0
    /\ groups = <<>>
    /\ result = "none"
    /\ error = "none"
    /\ request = NoRequest
    /\ response = "none"
    /\ returned = NotReturned
    /\ updatedCount = 0
    /\ lookupFailed = {}
    /\ sincePause = 0
    /\ running = [s \in Slots |-> NoInvocation]
    /\ requests = <<>>
    /\ attached = <<>>
    /\ attachFailed = <<>>

\* variant: the balance the check sees is what the other orders of the store
\* that are being processed will leave
Plafond_Reserving(w, os, o) ==
    LET other(k) == IF k # o /\ os[k].pc \in {"loop", "call"}
                    THEN Len(os[k].queue) ELSE 0
        left == w - SumSeq([k \in DOMAIN os |-> other(k)])
    IN  IF left < 0 THEN 0 ELSE left

\* authResult.plafond: the balance of the store at the issuer at the moment
\* order o authenticates, whatever the other orders os are doing
Plafond(w, os, o) == w

\* orders of one item each, confirmed and not yet processed, of a store whose
\* option has no storefront product
InitStore ==
    /\ NoOrder
    /\ storeOptions = <<[option_code |-> 1, salla_product_id |-> 0,
                         wholesale_price_usd |-> 1, stock_quantity |-> 0]>>
    /\ catalogue = [c \in {1} |-> [min_wholesale_value |-> 1,
                                   max_wholesale_value |-> 1]]
    /\ wallet \in 0..MaxWallet
    /\ NoWebhook
    /\ \E q \in [OrderIds -> 1..MaxUnitsSmall] :
          orders = [o \in OrderIds |->
             LET its == <<[product_option_code |-> 1, quantity_ordered |-> q[o],
                           unit_face_value |-> 2, unit_wholesale_price |-> 1,
                           total_wholesale_cost |-> q[o]]>>
             IN  [purchase |-> NewPurchase(its), items |-> its,
                  units |-> ExpandItems(its, 1), pc |-> "idle", queue |-> <<>>,
                  successCount |-> 0, failureCount |-> 0, sent |-> 0,
                  error |-> "none"]]

storeOrderVars ==
    <<purchase, items, units, pc, op, queue, successCount, failureCount,
      groups, result, error, request, response, returned, running, catalogue,
      updatedCount, lookupFailed, sincePause, stores, webhooks, requests,
      attached, attachFailed>>

\* processPurchaseOrder of order o, steps 1 to 3
OrderStart(o) ==
    /\ orders[o].pc = "idle"
    /\ UNCHANGED <<storeOrderVars, wallet>>
    /\ LET r == orders[o]
           price == MinWholesale(catalogue)
       IN  \/ \* authenticateWithUbiqfy (k = 0) or the pricing lookup throws
              \E k \in 0..Len(r.items) :
                 /\ storeOptions' = RepriceOptions(storeOptions, r.items, price, k)
                 /\ orders' = [orders EXCEPT ![o] =
                       [r EXCEPT !.items = RepriceItems(r.items, price, k),
                                 !.purchase = CatchProcessingFailed(r.purchase),
                                 !.pc = "done", !.error = "verifier"]]
           \/ LET chk == checkBalanceAndUpdatePricing(r.purchase, r.items,
                                          Plafond(wallet, orders, o), price)
              IN  /\ storeOptions' = RepriceOptions(storeOptions, r.items, price,
                                                    Len(r.items) + 1)
                  /\ orders' = [orders EXCEPT ![o] =
                        IF chk.sufficient
                        THEN [r EXCEPT !.items = chk.items,
                                       !.purchase = updatePurchaseStatus(
                                                      chk.purchase, "PROCESSING"),
                                       !.queue = FindPending(r.units),
                                       !.pc = "loop"]
                        ELSE [r EXCEPT !.items = chk.items,
                                       !.purchase = CatchProcessingFailed(
                                          [updatePurchaseStatus(chk.purchase, "FAILED")
                                             EXCEPT !.error_message = "Insufficient balance"]),
                                       !.pc = "done",
                                       !.error = "Insufficient balance to process purchase"]]

\* processSingleVoucher of order o up to the request posted to the issuer
OrderVoucherSend(o) ==
    /\ orders[o].pc = "loop"
    /\ orders[o].queue # <<>>
    /\ UNCHANGED <<storeOrderVars, storeOptions, wallet>>
    /\ LET r == orders[o]
           u == Head(r.queue)
       IN  orders' = [orders EXCEPT ![o] =
              [r EXCEPT !.units = save(r.units, u, MarkProcessing(r.units[u])),
                        !.sent = @ + 1,
                        !.pc = "call"]]

\* the issuer answers the request of order o, debiting the store's balance when
\* it issues the voucher, or the call fails; the outcome is saved
OrderVoucherEnd(o) ==
    /\ orders[o].pc = "call"
    /\ UNCHANGED <<storeOrderVars, storeOptions>>
    /\ LET r == orders[o]
           u == Head(r.queue)
           cost == r.items[r.units[u].purchase_item_id].unit_wholesale_price
       IN  \E outcome \in {"ok", "reject", "http_error"} :
              /\ outcome = "ok" => wallet >= cost
              /\ wallet' = IF outcome = "ok" THEN wallet - cost ELSE wallet
              /\ orders' = [orders EXCEPT ![o] =
                    [r EXCEPT !.units = save(r.units, u,
                                             ExecuteVoucher(r.units[u], u, outcome)),
                              !.successCount = IF Throws(outcome) THEN @ ELSE @ + 1,
                              !.failureCount = IF Throws(outcome) THEN @ + 1 ELSE @,
                              !.queue = Tail(r.queue),
                              !.pc = "loop"]]

\* processPurchaseOrder of order o, steps 5 to 7; the Publisher finds no
\* storefront product to attach to
OrderFinish(o) ==
    /\ orders[o].pc = "loop"
    /\ orders[o].queue = <<>>
    /\ UNCHANGED <<storeOrderVars, storeOptions, wallet>>
    /\ LET r == orders[o]
       IN  \/ \* authenticateWithUbiqfy throws at step 5
              orders' = [orders EXCEPT ![o] =
                 [r EXCEPT !.purchase = CatchProcessingFailed(r.purchase),
                           !.successCount = 0, !.failureCount = 0,
                           !.pc = "done", !.error = "auth"]]
           \/ orders' = [orders EXCEPT ![o] =
                 [r EXCEPT !.purchase = updatePurchaseCounts(
                                updatePurchaseStatus(r.purchase,
                                    FinalStatus(r.successCount, r.failureCount)),
                                r.units),
                           !.successCount = 0, !.failureCount = 0,
                           !.pc = "done"]]

NextStore ==
    \E o \in OrderIds :
       \/ OrderStart(o)
       \/ OrderVoucherSend(o)
       \/ OrderVoucherEnd(o)
       \/ OrderFinish(o)

SpecStore == InitStore /\ [][NextStore]_vars

\* C32: the pre-flight check of an order is decided by the balance of the store
\* at that moment and the order's own cost alone: it passes, and the order
\* becomes PROCESSING with that balance recorded, whenever the balance covers
\* the order's cost, whatever other orders of the store are being processed; it
\* fails for a shortfall only when the balance is below the order's own cost.
C32_CheckIgnoresOtherOrders ==
    [][\A o \in OrderIds :
          (orders[o].pc = "idle" /\ orders'[o].pc # "idle") =>
             LET cost == TotalCost(orders'[o].items)
                 passed == orders'[o].pc = "loop"
                 shortfall == orders'[o].error
                                 = "Insufficient balance to process purchase"
             IN  /\ passed => /\ wallet >= cost
                              /\ orders'[o].purchase.status = "PROCESSING"
                              /\ orders'[o].purchase.ubiqfy_balance_before = wallet
                 /\ shortfall => wallet < cost
                 /\ wallet >= cost => ~shortfall]_vars

\* two orders are PROCESSING at once, both passed the check against the same
\* balance, which is below their combined cost, and both have sent a request
C32_Witness ==
    /\ \A o \in {1, 2} :
          /\ orders[o].pc \in {"loop", "call"}
          /\ orders[o].purchase.status = "PROCESSING"
          /\ orders[o].sent > 0
    /\ orders[1].purchase.ubiqfy_balance_before
          = orders[2].purchase.ubiqfy_balance_before
    /\ orders[1].purchase.total_wholesale_cost
          + orders[2].purchase.total_wholesale_cost
          > orders[1].purchase.ubiqfy_balance_before

\* ---- Publisher runs of several orders on one storefront product ------------
\* a unit as the Executor leaves it when the issuer issued its voucher
IssuedUnit(v, u) == ExecuteVoucher(MarkProcessing(v), u, "ok")

\* orders of one item each whose vouchers are all issued and not yet published;
\* the option of the store is linked to one storefront product
InitStock ==
    /\ NoOrder
    /\ storeOptions = <<[option_code |-> 1, salla_product_id |-> 11,
                         wholesale_price_usd |-> 1, stock_quantity |-> 0]>>
    /\ catalogue = [c \in {1} |-> [min_wholesale_value |-> 1,
                                   max_wholesale_value |-> 1]]
    /\ wallet = 0
    /\ NoWebhook
    /\ \E q \in [OrderIds -> 1..MaxUnitsSmall] :
          orders = [o \in OrderIds |->
             LET its == <<[product_option_code |-> 1, quantity_ordered |-> q[o],
                           unit_face_value |-> 2, unit_wholesale_price |-> 1,
                           total_wholesale_cost |-> q[o]]>>
                 us == ExpandItems(its, 1)
             IN  [purchase |-> updatePurchaseCounts(
                                 updatePurchaseStatus(NewPurchase(its), "COMPLETED"),
                                 [u \in DOMAIN us |-> IssuedUnit(us[u], u)]),
                  items |-> its,
                  units |-> [u \in DOMAIN us |-> IssuedUnit(us[u], u)],
                  pc |-> "idle", groups |-> <<>>, found |-> <<>>,
                  added |-> 0, error |-> "none"]]

\* attachAllVoucherCodesToSalla of order o up to the attachment loop
PubStart(o) ==
    /\ orders[o].pc = "idle"
    /\ UNCHANGED <<storeOrderVars, storeOptions, wallet>>
    /\ LET r == orders[o]
       IN  orders' = [orders EXCEPT ![o] =
              IF PublishCandidates(r.units) = <<>>
              THEN [r EXCEPT !.pc = "done"]
              ELSE [r EXCEPT !.groups = GroupVouchers(PublishCandidates(r.units),
                                           r.units, r.items, storeOptions, <<>>),
                             !.pc = "attach"]]

\* attachVoucherCodesToSallaProduct of order o: the storefront answers the
\* request for the next entry of vouchersByProduct
PubAttach(o) ==
    /\ orders[o].pc = "attach"
    /\ orders[o].groups # <<>>
    /\ UNCHANGED <<storeOrderVars, storeOptions, wallet>>
    /\ \/ orders' = [orders EXCEPT ![o].pc = "flag"]
       \/ \* the call fails: the error leaves the Publisher
          orders' = [orders EXCEPT ![o].pc = "done", ![o].groups = <<>>,
                                   ![o].error = "salla"]

\* flagVouchersAsSyncedToSalla of order o: the UPDATE of its vouchers
PubFlag(o) ==
    /\ orders[o].pc = "flag"
    /\ UNCHANGED <<storeOrderVars, storeOptions, wallet>>
    /\ orders' = [orders EXCEPT
                    ![o].units = flagVouchersAsSyncedToSalla(@,
                                     Head(orders[o].groups).codes),
                    ![o].pc = "find"]

\* refreshStockLevels of order o: the rows that find({where: {salla_product_id}})
\* returns, as they are now
PubFind(o) ==
    /\ orders[o].pc = "find"
    /\ UNCHANGED <<storeOrderVars, storeOptions, wallet>>
    /\ orders' = [orders EXCEPT
                    ![o].found = [k \in DOMAIN storeOptions |->
                        IF storeOptions[k].salla_product_id
                              = Head(orders[o].groups).sallaProductId
                        THEN storeOptions[k].stock_quantity ELSE -1],
                    ![o].pc = "save"]

\* refreshStockLevels of order o: each row found is saved with the stock that
\* was read plus quantityAdded
PubSave(o) ==
    /\ orders[o].pc = "save"
    /\ UNCHANGED <<storeOrderVars, wallet>>
    /\ LET g == Head(orders[o].groups)
           found == orders[o].found
       IN  /\ storeOptions' = [k \in DOMAIN storeOptions |->
                 IF found[k] >= 0
                 THEN [storeOptions[k] EXCEPT
                         !.stock_quantity = found[k] + Len(g.codes)]
                 ELSE storeOptions[k]]
           /\ orders' = [orders EXCEPT ![o].added = @ + Len(g.codes),
                                       ![o].found = <<>>,
                                       ![o].groups = Tail(@),
                                       ![o].pc = "attach"]

\* attachAllVoucherCodesToSalla of order o returns after the last entry
PubFinish(o) ==
    /\ orders[o].pc = "attach"
    /\ orders[o].groups = <<>>
    /\ UNCHANGED <<storeOrderVars, storeOptions, wallet>>
    /\ orders' = [orders EXCEPT ![o].pc = "done"]

NextStock ==
    \E o \in OrderIds :
       \/ PubStart(o)
       \/ PubAttach(o)
       \/ PubFlag(o)
       \/ PubFind(o)
       \/ PubSave(o)
       \/ PubFinish(o)

SpecStock == InitStock /\ [][NextStock]_vars

\* C33: when the Publisher runs of all orders have ended, the stock counter of
\* the storefront product they attached to is its initial value (0) plus the
\* number of codes the runs attached, under every interleaving of the runs.
C33_NoStockUpdateLost ==
    (\A o \in OrderIds : orders[o].pc = "done")
       => storeOptions[1].stock_quantity
             = SumSeq([o \in OrderIds |-> orders[o].added])

\* ---- the Publisher where two stores sell the same option -------------------
\* purchase.sallaStore: the store that owns the order
OwnerStore == 1

\* the storefront products of the two stores
ProductOf(store) == 10 + store

\* An order of store OwnerStore whose vouchers are all issued, some without a
\* code, and not yet published. salla_store_product_options holds a row of the
\* option for each of the two stores, in either order; each store may have
\* linked its row to its own storefront product.
InitStores ==
    /\ \E q \in 1..MaxUnitsSmall :
          items = <<[product_option_code |-> 1, quantity_ordered |-> q,
                     unit_face_value |-> 2, unit_wholesale_price |-> 1,
                     total_wholesale_cost |-> q]>>
    /\ \E outcome \in [DOMAIN ExpandItems(items, 1) -> {"ok", "ok_noref"}] :
          units = [u \in DOMAIN ExpandItems(items, 1) |->
                     ExecuteVoucher(MarkProcessing(ExpandItems(items, 1)[u]),
                                    u, outcome[u])]
    /\ purchase = updatePurchaseCounts(
                     updatePurchaseStatus(NewPurchase(items), "COMPLETED"), units)
    /\ \E first \in {1, 2} : \E linked \in [{1, 2} -> BOOLEAN] :
          storeOptions = [k \in {1, 2} |->
             LET store == IF k = 1 THEN first ELSE 3 - first
             IN  [option_code |-> 1, salla_store_id |-> store,
                  salla_product_id |-> IF linked[store]
                                       THEN ProductOf(store) ELSE 0,
                  wholesale_price_usd |-> 1, stock_quantity |-> 0]]
    /\ catalogue = [c \in {1} |-> [min_wholesale_value |-> 1,
                                   max_wholesale_value |-> 1]]
    /\ pc = "idle"
    /\ op = "none"
    /\ queue = <<>>
    /\ successCount = 0
    /\ failureCount = 0
    /\ groups = <<>>
    /\ result = "none"
    /\ error = "none"
    /\ request = NoRequest
    /\ response = "none"
    /\ returned = NotReturned
    /\ updatedCount = 0
    /\ lookupFailed = {}
    /\ sincePause = 0
    /\ orders = <<>>
    /\ wallet = 0
    /\ NoWebhook
    /\ running = [s \in Slots |-> NoInvocation]
    /\ requests = [u \in DOMAIN units |-> 1]
    /\ attached = [u \in DOMAIN units |-> 0]
    /\ attachFailed = [u \in DOMAIN units |-> FALSE]

NextStores ==
    \/ PublishStart
    \/ AttachGroup
    \/ PublishFinish
    \/ Return

SpecStores == InitStores /\ [][NextStores]_vars

\* the storefront product that the owning store linked the unit's option to, 0
\* when it linked none
OwnProduct(u) ==
    LET code == items[units[u].purchase_item_id].product_option_code
        own == {k \in DOMAIN storeOptions :
                   /\ storeOptions[k].option_code = code
                   /\ storeOptions[k].salla_store_id = OwnerStore}
    IN  IF own = {} THEN 0
        ELSE storeOptions[CHOOSE k \in own : TRUE].salla_product_id

\* C34: a unit is flagged salla_synced only if it is GENERATED, has a reference
\* code, its option is linked to a storefront product and its code was in an
\* attachment request that succeeded; a GENERATED unit without a code or whose
\* option has no linkage is never among the codes submitted, never flagged and
\* never counted in a stock counter.
C34_SyncedOnlyAfterAttachment ==
    /\ \A u \in DOMAIN units :
          units[u].salla_synced =>
             /\ units[u].status = "GENERATED"
             /\ units[u].reference # 0
             /\ OwnProduct(u) # 0
             /\ attached[u] >= 1
    /\ \A u \in DOMAIN units :
          (units[u].status = "GENERATED"
             /\ (units[u].reference = 0 \/ OwnProduct(u) = 0)) =>
             /\ ~units[u].salla_synced
             /\ attached[u] = 0
             /\ ~attachFailed[u]
             /\ \A k \in DOMAIN groups :
                   ~InCodes(units[u].reference, groups[k].codes)
    /\ (\A u \in DOMAIN units : units[u].reference = 0 \/ OwnProduct(u) = 0)
          => \A k \in DOMAIN storeOptions : storeOptions[k].stock_quantity = 0

\* C35: the Publisher of an order of store OwnerStore has only storefront
\* products of that store among the products it submits codes to, and the
\* stock counters of the other store's rows stay as they were.
C35_OnlyOwnStoreProducts ==
    /\ \A k \in DOMAIN groups : groups[k].sallaProductId = ProductOf(OwnerStore)
    /\ \A k \in DOMAIN storeOptions :
          storeOptions[k].salla_store_id # OwnerStore
             => storeOptions[k].stock_quantity = 0

\* a step of the attachment loop in which the storefront call failed
AttachFails ==
    /\ pc = "attach"
    /\ groups # <<>>
    /\ attached' = attached

\* C36: the Publisher attaches the entries of vouchersByProduct one after
\* another, a success touching only the units of its entry; when the attachment
\* of an entry fails, the invocation ends at once, with the error when it was
\* called on its own, the remaining entries are not attempted, and no unit and
\* no stock counter changes: what was published stays published, the units of
\* the failing and the later entries stay as they were.
C36_FailureEndsThePublisherRun ==
    /\ [][AttachFails =>
            /\ pc' = "done"
            /\ groups' = <<>>
            /\ op = "publish" => (result' = "thrown" /\ error' = "salla")
            /\ units' = units
            /\ storeOptions' = storeOptions
         ]_vars
    /\ [][(pc = "attach" /\ groups # <<>> /\ ~AttachFails) =>
            /\ groups' = Tail(groups)
            /\ \A u \in DOMAIN units :
                  ~InCodes(units[u].reference, Head(groups).codes)
                     => (units'[u] = units[u] /\ attached'[u] = attached[u])
         ]_vars

\* C36 witness: a Publisher run called on its own attached the entry of one
\* product, failed at the entry of the next and ended with the error; the unit
\* of the first is published, the unit of the second is not
C36_Witness ==
    /\ pc = "done"
    /\ op = "publish"
    /\ result = "thrown"
    /\ error = "salla"
    /\ \E u, w \in DOMAIN units :
          /\ LinkedProduct(u) # LinkedProduct(w)
          /\ units[u].salla_synced
          /\ attached[u] = 1
          /\ ~attachFailed[u]
          /\ Publishable(w)
          /\ ~units[w].salla_synced
          /\ attached[w] = 0
          /\ attachFailed[w]
          /\ storeOptions[units[u].purchase_item_id].stock_quantity = 1
          /\ storeOptions[units[w].purchase_item_id].stock_quantity = 0

\* ---- installation webhooks of the storefront platform ----------------------
MaxMerchants == 2    \* merchants that send webhooks
MaxWebhooks == 4     \* webhooks processed for one merchant
MaxTokens == 2       \* token pairs an app.store.authorize payload may carry

Merchants == 1..MaxMerchants

\* payload.data.access_token / refresh_token of an app.store.authorize event
AccessToken(n) == "access-" \o ToString(n)
RefreshToken(n) == "refresh-" \o ToString(n)

\* sallaStoreRepository.findOne({where: {salla_store_id}}): index of the record,
\* 0 when there is none
FindStore(tbl, m) ==
    IF \E k \in DOMAIN tbl : tbl[k].salla_store_id = m
    THEN CHOOSE k \in DOMAIN tbl :
            /\ tbl[k].salla_store_id = m
            /\ \A j \in DOMAIN tbl : tbl[j].salla_store_id = m => k <= j
    ELSE 0

\* variant: the tokens are reset to the placeholder at every installation
handleAppInstalled_ResetsTokens(tbl, m) ==
    LET k == FindStore(tbl, m)
    IN  IF k # 0
        THEN [tbl EXCEPT ![k] =
                [@ EXCEPT !.is_active = TRUE,
                          !.sync_status = "PENDING",
                          !.last_error_message = "",
                          !.salla_access_token = "pending",
                          !.salla_refresh_token = "pending"]]
        ELSE Append(tbl, [salla_store_id |-> m, is_active |-> TRUE,
                          sync_status |-> "PENDING", last_error_message |-> "",
                          salla_access_token |-> "pending",
                          salla_refresh_token |-> "pending"])

\* handleAppInstalled: the table of store records after the event of merchant m
handleAppInstalled(tbl, m) ==
    LET k == FindStore(tbl, m)
    IN  IF k # 0
        THEN [tbl EXCEPT ![k] =
                [@ EXCEPT !.is_active = TRUE,
                          !.sync_status = "PENDING",
                          !.last_error_message = "",
                          !.salla_access_token =
                              IF tbl[k].salla_access_token = "REVOKED"
                              THEN "pending" ELSE @,
                          !.salla_refresh_token =
                              IF tbl[k].salla_access_token = "REVOKED"
                              THEN "pending" ELSE @]]
        ELSE Append(tbl, [salla_store_id |-> m, is_active |-> TRUE,
                          sync_status |-> "PENDING", last_error_message |-> "",
                          salla_access_token |-> "pending",
                          salla_refresh_token |-> "pending"])

\* handleStoreAuthorization: the table after the event of merchant m carrying
\* the tokens access and refresh (the record is created when there is none)
handleStoreAuthorization(tbl, m, access, refresh) ==
    LET k == FindStore(tbl, m)
    IN  IF k # 0
        THEN [tbl EXCEPT ![k] =
                [@ EXCEPT !.salla_access_token = access,
                          !.salla_refresh_token = refresh]]
        ELSE Append(tbl, [salla_store_id |-> m, is_active |-> TRUE,
                          sync_status |-> "PENDING", last_error_message |-> "",
                          salla_access_token |-> access,
                          salla_refresh_token |-> refresh])

\* variant: the record is deactivated and keeps its tokens
handleAppUninstalled_KeepsTokens(tbl, m) ==
    LET k == FindStore(tbl, m)
    IN  IF k = 0 THEN tbl
        ELSE [tbl EXCEPT ![k] =
                [@ EXCEPT !.is_active = FALSE,
                          !.sync_status = "FAILED",
                          !.last_error_message = "App uninstalled"]]

\* handleAppUninstalled: the table after the event of merchant m
handleAppUninstalled(tbl, m) ==
    LET k == FindStore(tbl, m)
    IN  IF k = 0 THEN tbl
        ELSE [tbl EXCEPT ![k] =
                [@ EXCEPT !.is_active = FALSE,
                          !.sync_status = "FAILED",
                          !.salla_access_token = "REVOKED",
                          !.salla_refresh_token = "REVOKED",
                          !.last_error_message = "App uninstalled"]]

\* the payload of a processed webhook, as far as the handlers read it
Payload(event, access, refresh) ==
    [event |-> event, access_token |-> access, refresh_token |-> refresh]

\* no store is registered
InitWebhook ==
    /\ NoOrder
    /\ storeOptions = <<>>
    /\ catalogue = <<>>
    /\ orders = <<>>
    /\ wallet = 0
    /\ stores = <<>>
    /\ webhooks = [m \in Merchants |-> <<>>]

\* processWebhook: event app.installed of merchant m
WebhookAppInstalled(m) ==
    /\ Len(webhooks[m]) < MaxWebhooks
    /\ stores' = handleAppInstalled(stores, m)
    /\ webhooks' = [webhooks EXCEPT ![m] =
                       Append(@, Payload("app.installed", "", ""))]
    /\ UNCHANGED <<purchase, items, units, storeOptions, pc, op, queue,
                   successCount, failureCount, groups, result, error, request,
                   response, returned, running, catalogue, updatedCount,
                   lookupFailed, sincePause, orders, wallet, requests,
                   attached, attachFailed>>

\* processWebhook: event app.store.authorize of merchant m
WebhookStoreAuthorize(m) ==
    /\ Len(webhooks[m]) < MaxWebhooks
    /\ \E n \in 1..MaxTokens :
          /\ stores' = handleStoreAuthorization(stores, m, AccessToken(n),
                                                RefreshToken(n))
          /\ webhooks' = [webhooks EXCEPT ![m] =
                             Append(@, Payload("app.store.authorize",
                                               AccessToken(n), RefreshToken(n)))]
    /\ UNCHANGED <<purchase, items, units, storeOptions, pc, op, queue,
                   successCount, failureCount, groups, result, error, request,
                   response, returned, running, catalogue, updatedCount,
                   lookupFailed, sincePause, orders, wallet, requests,
                   attached, attachFailed>>

\* processWebhook: event app.uninstalled of merchant m
WebhookAppUninstalled(m) ==
    /\ Len(webhooks[m]) < MaxWebhooks
    /\ stores' = handleAppUninstalled(stores, m)
    /\ webhooks' = [webhooks EXCEPT ![m] =
                       Append(@, Payload("app.uninstalled", "", ""))]
    /\ UNCHANGED <<purchase, items, units, storeOptions, pc, op, queue,
                   successCount, failureCount, groups, result, error, request,
                   response, returned, running, catalogue, updatedCount,
                   lookupFailed, sincePause, orders, wallet, requests,
                   attached, attachFailed>>

NextWebhook ==
    \E m \in Merchants :
       \/ WebhookAppInstalled(m)
       \/ WebhookStoreAuthorize(m)
       \/ WebhookAppUninstalled(m)

SpecWebhook == InitWebhook /\ [][NextWebhook]_vars

\* the records of merchant m
RecordsOf(m) == {k \in DOMAIN stores : stores[k].salla_store_id = m}

\* a token the storefront accepts: not one of the two placeholders
Usable(token) == token \notin {"pending", "REVOKED"}

\* the events of the webhooks processed for merchant m, in order
Events(m) == [i \in DOMAIN webhooks[m] |-> webhooks[m][i].event]

\* the step processes a webhook of merchant m with the given event
Processes(m, event) ==
    /\ Len(webhooks'[m]) = Len(webhooks[m]) + 1
    /\ webhooks'[m][Len(webhooks'[m])].event = event

\* the last two webhooks processed for merchant m are app.installed and
\* app.store.authorize, in either order; a is the position of the latter
InstalledAndAuthorized(m, a) ==
    LET n == Len(webhooks[m])
    IN  /\ n >= 2
        /\ a \in {n - 1, n}
        /\ webhooks[m][a].event = "app.store.authorize"
        /\ webhooks[m][2 * n - 1 - a].event = "app.installed"

LastAuthorize(m) ==
    LET good == {i \in DOMAIN webhooks[m] :
                    /\ webhooks[m][i].event = "app.store.authorize"
                    /\ \A j \in DOMAIN webhooks[m] :
                          j > i => webhooks[m][j].event # "app.uninstalled"}
    IN  IF good = {} THEN 0
        ELSE CHOOSE i \in good : \A j \in good : j <= i

\* C38: an app.uninstalled of a known merchant leaves its record inactive with
\* both tokens REVOKED; an app.installed on such a record makes it active and
\* sets both tokens to the placeholder pending; and a record holds a usable
\* token only if an app.store.authorize was processed after the last
\* app.uninstalled, the token being the one of the last such event.
C38_TokensOnlyFromAuthorize ==
    /\ [][\A m \in Merchants :
            (Processes(m, "app.uninstalled") /\ FindStore(stores, m) # 0) =>
               LET s == stores'[FindStore(stores, m)]
               IN  /\ ~s.is_active
                   /\ s.salla_access_token = "REVOKED"
                   /\ s.salla_refresh_token = "REVOKED"
         ]_vars
    /\ [][\A m \in Merchants :
            (Processes(m, "app.installed") /\ FindStore(stores, m) # 0
                /\ stores[FindStore(stores, m)].salla_access_token = "REVOKED") =>
               LET s == stores'[FindStore(stores, m)]
               IN  /\ s.is_active
                   /\ s.salla_access_token = "pending"
                   /\ s.salla_refresh_token = "pending"
         ]_vars
    /\ [](\A m \in Merchants : \A k \in RecordsOf(m) :
            (Usable(stores[k].salla_access_token)
                \/ Usable(stores[k].salla_refresh_token)) =>
               /\ LastAuthorize(m) # 0
               /\ stores[k].salla_access_token
                     = webhooks[m][LastAuthorize(m)].access_token
               /\ stores[k].salla_refresh_token
                     = webhooks[m][LastAuthorize(m)].refresh_token)

\* C38 witness: a merchant was authorized, uninstalled and installed again; its
\* record is active and holds the placeholder
C38_Witness ==
    /\ Events(1) = <<"app.store.authorize", "app.uninstalled", "app.installed">>
    /\ \A k \in RecordsOf(1) :
          /\ stores[k].is_active
          /\ stores[k].salla_access_token = "pending"
    /\ RecordsOf(1) # {}

====
